---- MODULE Spec2Model ----
(***************************************************************************)
(* Model of programs/vault-core: a pooled-asset vault with proportional    *)
(* shares, a MasterChef-style reward accumulator and a flash-loan          *)
(* primitive.  Every instruction handler is an operator from a program     *)
(* state (vault account, user positions, token balances) to a result       *)
(* (error code, new state, output); an action applies one handler and      *)
(* commits its state only when the handler returns Ok, as the host ledger  *)
(* does with a transaction.                                                 *)
(***************************************************************************)
EXTENDS Integers, Sequences, FiniteSets, TLC

VARIABLES vault, positions, token, now, last, hist, frame, config

vars == <<vault, positions, token, now, last, hist, frame, config>>

(***************************************************************************)
(* Bounds of the model.                                                    *)
(***************************************************************************)
InitWallet == 2        \* asset tokens each user's wallet starts with
InitFunder == 2        \* reward tokens the funder's wallet starts with
MaxTime == 2           \* the clock advances up to this timestamp
MaxRate == 1           \* largest reward_rate passed to fund_rewards
MaxCallbackSteps == 2  \* transfers a flash-loan callback performs at most
MaxShares == 5         \* instructions that take total_shares above this are not explored
InitLiquidity == 3     \* largest initial reserve of either side of the exchange pool
MaxSwap == 3           \* largest amount_in and min_amount_out of a swap

(***************************************************************************)
(* Program constants.  The accumulator scale is 10^12 in the source; the   *)
(* model keeps the same fixed-point arithmetic at a scale that fits the    *)
(* model checker's integers.                                                *)
(***************************************************************************)
REWARD_PRECISION == 1000
\* the range of a u128: 2^128 in the source, 2^27 in the model, which like the
\* source's leaves room for the scaled rewards of every catch-up the model
\* makes with the clock moving forward
U128_RANGE == 134217728
MAX_CALLBACK_PROGRAMS == 10
BPS_DENOMINATOR == 10000
\* the range of a u64: 2^64 in the source, 2^16 in the model
U64_RANGE == 65536
MAX_SWAP_PROGRAMS == 10

(***************************************************************************)
(* Identities and token accounts.                                          *)
(***************************************************************************)
Users == {"u1", "u2"}
Admin == "admin"
VaultAuthority == "vault_authority"
DefaultPubkey == "default"
TreasuryKey == "treasury"
Programs == {"cb1", "cb2"}
\* the program id of vault-core itself
VaultProgram == "vault_core"

\* the program ids of mock-amm and of the signing authority of its pool
AmmProgram == "mock_amm"
PoolAuthority == "pool_authority"

\* the token accounts: those of the vault and its users, the two reserve
\* accounts of the exchange pool, and the accounts its creator funds it from
Accounts ==
  {"custody", "w1", "w2", "tacc", "rvault", "r1", "r2", "fw",
   "pool_a", "pool_b", "la", "lb"}

\* owner (authority) of each token account
Owner ==
  [a \in Accounts |->
     CASE a \in {"custody", "rvault"} -> VaultAuthority
       [] a \in {"pool_a", "pool_b"} -> PoolAuthority
       [] a \in {"w1", "r1"} -> "u1"
       [] a \in {"w2", "r2"} -> "u2"
       [] a = "tacc" -> TreasuryKey
       [] OTHER -> Admin]

\* mint of each token account
Mint ==
  [a \in Accounts |->
     IF a \in {"custody", "w1", "w2", "tacc", "pool_b", "lb"} THEN "asset" ELSE "reward"]

Wallet == [u \in Users |-> IF u = "u1" THEN "w1" ELSE "w2"]
RewardWallet == [u \in Users |-> IF u = "u1" THEN "r1" ELSE "r2"]

\* a user position account that does not exist (never created, or reclaimed)
ClosedPosition == [open |-> FALSE, shares |-> 0, reward_debt |-> 0]

\* the result of a handler.  wrapped: an unchecked arithmetic operation of the
\* handler left the range of its type.  A build with overflow checks panics
\* there and the ledger rolls the transaction back; a build without them goes
\* on with the wrapped value, and (err, st, out) are what it produces.
Fail(st, e) == [err |-> e, st |-> st, out |-> 0, aux |-> 0, wrapped |-> FALSE]
Done(st, o, x) == [err |-> "Ok", st |-> st, out |-> o, aux |-> x, wrapped |-> FALSE]

(***************************************************************************)
(* The token program's transfer: the source and destination share a mint,  *)
(* the signing authority owns the source, and the source holds the amount. *)
(***************************************************************************)
CanTransfer(tok, from, to, authority, amount) ==
  /\ Mint[from] = Mint[to]
  /\ Owner[from] = authority
  /\ tok[from] >= amount

token_transfer(tok, from, to, amount) ==
  IF from = to THEN tok
  ELSE [tok EXCEPT ![from] = @ - amount, ![to] = @ + amount]

(***************************************************************************)
(* Share-price math.                                                       *)
(***************************************************************************)
calculate_shares_for_deposit(deposit_amount, vault_balance, total_shares) ==
  IF vault_balance = 0
    THEN deposit_amount
    ELSE (deposit_amount * total_shares) \div vault_balance

\* -1 stands for Err(DivisionByZero), -2 for Err(InvalidAmount)
calculate_tokens_for_withdraw(shares, vault_balance, total_shares) ==
  IF total_shares = 0 THEN -1
  ELSE LET tokens == (shares * vault_balance) \div total_shares
       IN IF tokens > 0 THEN tokens ELSE -2

(***************************************************************************)
(* Reward accumulator catch-up.                                            *)
(***************************************************************************)
\* x as u128, for a signed x: a negative value is sign-extended and read as
\* unsigned
as_u128(x) == IF x >= 0 THEN x ELSE U128_RANGE + x

\* a.saturating_sub(b) on i64: the difference, clamped to the range of i64
\* (which no difference of two timestamps of the model leaves)
i64_saturating_sub(a, b) == a - b

\* a * b leaves the range of u128
mul_overflows(a, b) == a > 0 /\ b > (U128_RANGE - 1) \div a

\* a.wrapping_mul(b) on u128, for a within the range: a * b modulo the range
RECURSIVE wrapping_mul(_, _)
wrapping_mul(a, b) ==
  IF b = 0 THEN 0
  ELSE LET half == wrapping_mul(a, b \div 2)
       IN (2 * half + (b % 2) * a) % U128_RANGE

\* an accumulator that takes the scaled rewards undivided
acc_increment_undivided(product, total_shares) == product

\* the increment of acc_reward_per_share: scaled rewards per share, rounded down
acc_increment_for(product, total_shares) == product \div total_shares

\* rewards that enter the accumulator unscaled
scaled_rewards_unscaled(rewards) == rewards

\* rewards * REWARD_PRECISION, the emitted rewards in fixed point
scaled_rewards(rewards) == rewards * REWARD_PRECISION

\* the result of a catch-up: the vault it leaves, or an error
CaughtUp(v, w) == [err |-> "Ok", v |-> v, wrapped |-> w]
CatchUpFailed(v, e) == [err |-> e, v |-> v, wrapped |-> FALSE]

\* a catch-up that accrues without recording the time it caught up to
update_rewards_without_timestamp(v, current_ts) ==
  LET delta_ts == current_ts - v.last_update_ts
  IN IF delta_ts = 0 \/ v.total_shares = 0
       THEN CaughtUp([v EXCEPT !.last_update_ts = current_ts], FALSE)
       ELSE CaughtUp([v EXCEPT !.acc_reward_per_share =
                        @ + ((v.reward_rate * delta_ts) * REWARD_PRECISION)
                              \div v.total_shares], FALSE)

update_rewards(v, current_ts) ==
  LET delta_ts == i64_saturating_sub(current_ts, v.last_update_ts)
  IN IF delta_ts = 0 \/ v.total_shares = 0
       THEN CaughtUp([v EXCEPT !.last_update_ts = current_ts], FALSE)
       ELSE IF mul_overflows(v.reward_rate, as_u128(delta_ts))
         THEN CatchUpFailed(v, "MathOverflow")
       ELSE LET rewards == v.reward_rate * as_u128(delta_ts)
                wraps == mul_overflows(rewards, REWARD_PRECISION)
            IN IF rewards > 0 /\ v.total_shares > 0
                 THEN LET product == IF wraps THEN wrapping_mul(rewards, REWARD_PRECISION)
                                     ELSE scaled_rewards(rewards)
                          acc_increment == acc_increment_for(product, v.total_shares)
                          acc == v.acc_reward_per_share + acc_increment
                      IN IF acc >= U128_RANGE THEN CatchUpFailed(v, "MathOverflow")
                         ELSE CaughtUp([v EXCEPT !.acc_reward_per_share = acc,
                                                 !.last_update_ts = current_ts], wraps)
                 ELSE CaughtUp([v EXCEPT !.last_update_ts = current_ts], FALSE)

\* a failure that leaves the caught-up vault behind
rolled_back_keeping_catch_up(st, v1) == [st EXCEPT !.vault = v1]

\* what an instruction that fails after its catch-up leaves of the state st it
\* started from, v1 being the vault as update_rewards wrote it: the ledger
\* discards every write of a failed instruction
rolled_back(st, v1) == st

\* a subtraction that always yields 0
saturating_sub_none(a, b) == 0

\* a.saturating_sub(b) on unsigned integers
saturating_sub(a, b) == IF a >= b THEN a - b ELSE 0

\* a baseline that is never set
reward_debt_zero(shares, acc_reward_per_share) == 0

\* the reward baseline of a position: shares * acc_reward_per_share (scaled)
reward_debt_for(shares, acc_reward_per_share) == shares * acc_reward_per_share

\* a position reclaimed as soon as it holds no shares
closes_on_zero_shares(new_shares, pending_rewards_scaled) == new_shares = 0

\* withdraw reclaims the position: no shares and no pending reward are left
closes_on_withdraw(new_shares, pending_rewards_scaled) ==
  new_shares = 0 /\ pending_rewards_scaled = 0

(***************************************************************************)
(* initialize_vault                                                        *)
(***************************************************************************)
initialize_vault(authority, ts) ==
  [authority |-> authority,
   token_mint |-> "asset",
   total_shares |-> 0,
   reward_rate |-> 0,
   acc_reward_per_share |-> 0,
   last_update_ts |-> ts,
   reward_mint |-> "reward",
   reward_vault |-> "rvault",
   flash_fee_bps |-> 0,
   fee_treasury |-> DefaultPubkey,
   callback_allowlist_enabled |-> FALSE,
   callback_allowlist |-> <<>>]

(***************************************************************************)
(* deposit                                                                 *)
(***************************************************************************)
deposit(st, user, user_token_account, vault_token_account, amount, ts) ==
  IF amount = 0 THEN Fail(st, "InvalidAmount")
  ELSE IF st.vault.token_mint # Mint[vault_token_account]
         \/ st.vault.token_mint # Mint[user_token_account]
    THEN Fail(st, "InvalidTokenMint")
  ELSE
    LET caught == update_rewards(st.vault, ts)
        v1 == caught.v
        pos == st.positions[user]
        is_new_position == pos.shares = 0
        pos1 == IF is_new_position
                  THEN [open |-> TRUE, shares |-> pos.shares, reward_debt |-> 0]
                  ELSE pos
        vault_balance == st.token[vault_token_account]
        shares == calculate_shares_for_deposit(amount, vault_balance, v1.total_shares)
    IN IF caught.err # "Ok" THEN Fail(st, caught.err)
       ELSE IF shares = 0 THEN Fail(rolled_back(st, v1), "InvalidAmount")
       ELSE IF ~CanTransfer(st.token, user_token_account, vault_token_account, user, amount)
         THEN Fail(rolled_back(st, v1), "TokenError")
       ELSE
         LET tok1 == token_transfer(st.token, user_token_account, vault_token_account, amount)
             v2 == [v1 EXCEPT !.total_shares = @ + shares]
             new_shares == pos1.shares + shares
             new_debt == reward_debt_for(new_shares, v2.acc_reward_per_share)
             pos2 == [pos1 EXCEPT !.shares = new_shares, !.reward_debt = new_debt]
         IN IF new_debt >= U128_RANGE THEN Fail(rolled_back(st, v1), "MathOverflow")
            ELSE [Done([vault |-> v2,
                        positions |-> [st.positions EXCEPT ![user] = pos2],
                        token |-> tok1], shares, 0) EXCEPT !.wrapped = caught.wrapped]

(***************************************************************************)
(* withdraw                                                                *)
(***************************************************************************)
\* a share check that lets every request through
sufficient_shares_unchecked(position_shares, shares) == TRUE

\* the position holds the shares it is asked to burn
sufficient_shares(position_shares, shares) == position_shares >= shares

\* a withdrawal that leaves the vault's share total as it was
total_shares_kept(total_shares, shares) == total_shares

\* vault.total_shares after burning shares
total_shares_after_withdraw(total_shares, shares) == total_shares - shares

withdraw(st, user, user_token_account, vault_token_account, shares, ts) ==
  LET pos == st.positions[user]
  IN
  IF ~pos.open THEN Fail(st, "AccountNotInitialized")
  ELSE IF shares = 0 THEN Fail(st, "InvalidAmount")
  ELSE IF ~sufficient_shares(pos.shares, shares) THEN Fail(st, "InsufficientShares")
  ELSE
    LET caught == update_rewards(st.vault, ts)
        v1 == caught.v
        vault_balance == st.token[vault_token_account]
        tokens == calculate_tokens_for_withdraw(shares, vault_balance, v1.total_shares)
    IN IF caught.err # "Ok" THEN Fail(st, caught.err)
       ELSE IF tokens = -1 THEN Fail(rolled_back(st, v1), "DivisionByZero")
       ELSE IF tokens = -2 THEN Fail(rolled_back(st, v1), "InvalidAmount")
       ELSE IF ~CanTransfer(st.token, vault_token_account, user_token_account,
                            VaultAuthority, tokens)
         THEN Fail(rolled_back(st, v1), "TokenError")
       ELSE
         LET tok1 == token_transfer(st.token, vault_token_account, user_token_account, tokens)
             v2 == [v1 EXCEPT !.total_shares = total_shares_after_withdraw(@, shares)]
             total_owed_scaled_before_withdrawal == pos.shares * v2.acc_reward_per_share
             old_reward_debt == pos.reward_debt
             pending_rewards_scaled ==
               saturating_sub(total_owed_scaled_before_withdrawal, old_reward_debt)
             new_shares == pos.shares - shares
             new_debt == IF new_shares > 0
                           THEN reward_debt_for(new_shares, v2.acc_reward_per_share)
                           ELSE IF pending_rewards_scaled > 0
                                  THEN pending_rewards_scaled
                                  ELSE 0
             pos2 == IF closes_on_withdraw(new_shares, pending_rewards_scaled)
                       THEN ClosedPosition
                       ELSE [open |-> TRUE, shares |-> new_shares, reward_debt |-> new_debt]
         IN IF total_owed_scaled_before_withdrawal >= U128_RANGE
                 \/ new_debt >= U128_RANGE
              THEN Fail(rolled_back(st, v1), "MathOverflow")
            ELSE [Done([vault |-> v2,
                        positions |-> [st.positions EXCEPT ![user] = pos2],
                        token |-> tok1], tokens, 0) EXCEPT !.wrapped = caught.wrapped]

(***************************************************************************)
(* fund_rewards                                                            *)
(***************************************************************************)
\* a funding that starts the accumulator afresh
set_reward_rate_restarting(v, reward_rate) ==
  [v EXCEPT !.reward_rate = reward_rate, !.acc_reward_per_share = 0]

\* a funding that stores the rate it is given, zero or not
set_reward_rate_always(v, reward_rate) == [v EXCEPT !.reward_rate = reward_rate]

\* the rate is overwritten when the caller provides one
set_reward_rate(v, reward_rate) ==
  IF reward_rate > 0 THEN [v EXCEPT !.reward_rate = reward_rate] ELSE v

fund_rewards(st, funder, funder_token_account, reward_vault, amount, reward_rate) ==
  IF amount = 0 THEN Fail(st, "InvalidAmount")
  ELSE IF st.vault.reward_vault # reward_vault THEN Fail(st, "RewardVaultMismatch")
  ELSE IF st.vault.reward_mint # Mint[reward_vault]
         \/ st.vault.reward_mint # Mint[funder_token_account]
    THEN Fail(st, "InvalidRewardMint")
  ELSE IF ~CanTransfer(st.token, funder_token_account, reward_vault, funder, amount)
    THEN Fail(st, "TokenError")
  ELSE
    LET tok1 == token_transfer(st.token, funder_token_account, reward_vault, amount)
        v1 == set_reward_rate(st.vault, reward_rate)
    IN Done([st EXCEPT !.vault = v1, !.token = tok1], amount, 0)

(***************************************************************************)
(* claim_rewards                                                           *)
(***************************************************************************)
\* a balance test that lets every payout through to the transfer
reward_balance_unchecked(balance, pending) == TRUE

\* the reward custody account holds the payout
reward_balance_sufficient(balance, pending) == balance >= pending

\* a conversion that rounds up
pending_units_rounded_up(pending_scaled) ==
  (pending_scaled + REWARD_PRECISION - 1) \div REWARD_PRECISION

\* pending_scaled / REWARD_PRECISION: the reward in token units, rounded down
pending_units(pending_scaled) == pending_scaled \div REWARD_PRECISION

claim_rewards(st, user, user_reward_token_account, reward_vault, ts) ==
  LET pos == st.positions[user]
  IN
  IF ~pos.open THEN Fail(st, "AccountNotInitialized")
  ELSE IF st.vault.reward_vault # reward_vault THEN Fail(st, "RewardVaultMismatch")
  ELSE IF st.vault.reward_mint # Mint[reward_vault]
         \/ st.vault.reward_mint # Mint[user_reward_token_account]
    THEN Fail(st, "InvalidRewardMint")
  ELSE
    LET caught == update_rewards(st.vault, ts)
        v1 == caught.v
        total_owed_scaled == pos.shares * v1.acc_reward_per_share
        pending_scaled ==
          IF pos.shares = 0
            THEN pos.reward_debt
            ELSE saturating_sub(total_owed_scaled, pos.reward_debt)
        pending == pending_units(pending_scaled)
    IN IF caught.err # "Ok" THEN Fail(st, caught.err)
       ELSE IF total_owed_scaled >= U128_RANGE THEN Fail(rolled_back(st, v1), "MathOverflow")
       ELSE IF pending > 0
         THEN IF ~reward_balance_sufficient(st.token[reward_vault], pending)
                THEN Fail(rolled_back(st, v1), "InsufficientRewardBalance")
              ELSE IF ~CanTransfer(st.token, reward_vault, user_reward_token_account,
                                   VaultAuthority, pending)
                THEN Fail(rolled_back(st, v1), "TokenError")
              ELSE
                LET tok1 == token_transfer(st.token, reward_vault,
                                           user_reward_token_account, pending)
                    pos2 == IF pos.shares > 0
                              THEN [pos EXCEPT !.reward_debt =
                                      reward_debt_for(pos.shares, v1.acc_reward_per_share)]
                              ELSE ClosedPosition
                IN [Done([vault |-> v1,
                          positions |-> [st.positions EXCEPT ![user] = pos2],
                          token |-> tok1], pending, 0) EXCEPT !.wrapped = caught.wrapped]
         ELSE [Done([st EXCEPT !.vault = v1], 0, 0) EXCEPT !.wrapped = caught.wrapped]

(***************************************************************************)
(* update_flash_loan_config.  An Option argument is a sequence: <<>> for   *)
(* None, <<x>> for Some(x).                                                *)
(***************************************************************************)
\* an authority test that any signer passes
is_authority_anyone(v, signer) == TRUE

\* the signer is the authority stored in the vault
is_authority(v, signer) == v.authority = signer

\* a cap that admits a list of any length
allowlist_fits_any(allowlist) == TRUE

\* the allow-list is within its capacity
allowlist_fits(allowlist) == Len(allowlist) <= MAX_CALLBACK_PROGRAMS

update_flash_loan_config(st, signer, flash_fee_bps, fee_treasury, callback_allowlist_enabled, callback_allowlist) ==
  IF ~is_authority(st.vault, signer) THEN Fail(st, "InvalidVault")
  ELSE IF Len(flash_fee_bps) = 1 /\ flash_fee_bps[1] > BPS_DENOMINATOR
    THEN Fail(st, "InvalidAmount")
  ELSE IF Len(callback_allowlist) = 1 /\ ~allowlist_fits(callback_allowlist[1])
    THEN Fail(st, "MathOverflow")
  ELSE
    LET v1 == IF Len(flash_fee_bps) = 1
                THEN [st.vault EXCEPT !.flash_fee_bps = flash_fee_bps[1]] ELSE st.vault
        v2 == IF Len(fee_treasury) = 1
                THEN [v1 EXCEPT !.fee_treasury = fee_treasury[1]] ELSE v1
        v3 == IF Len(callback_allowlist_enabled) = 1
                THEN [v2 EXCEPT !.callback_allowlist_enabled = callback_allowlist_enabled[1]]
                ELSE v2
        v4 == IF Len(callback_allowlist) = 1
                THEN [v3 EXCEPT !.callback_allowlist = callback_allowlist[1]] ELSE v3
    IN Done([st EXCEPT !.vault = v4], 0, 0)

(***************************************************************************)
(* The flash-loan callback is an opaque program.  What it can do to the    *)
(* token balances is a sequence of transfers out of the wallets whose      *)
(* owners signed the transaction; it fails when one of them fails.         *)
(***************************************************************************)
RECURSIVE invoke(_, _)
invoke(tok, script) ==
  IF script = <<>> THEN [ok |-> TRUE, tok |-> tok]
  ELSE LET step == Head(script)
       IN IF CanTransfer(tok, step.from, step.to, Owner[step.from], step.amt)
            THEN invoke(token_transfer(tok, step.from, step.to, step.amt), Tail(script))
            ELSE [ok |-> FALSE, tok |-> tok]

\* the callback is an instruction of vault-core itself (the runtime admits a
\* program invoking itself directly): a deposit or a withdraw of the vault,
\* signed by a signer of the transaction
NoNested == [ix |-> "none", user |-> "-", uta |-> "-", vta |-> "-", amt |-> 0]

\* the callback invocation: what it leaves of the program state, or failure.
\* A program other than vault-core cannot call back into vault-core (the
\* runtime refuses the re-entry); it moves tokens as its script says.
invoke_callback(st, callback_program, script, nested, ts) ==
  IF callback_program = VaultProgram
    THEN LET r == CASE nested.ix = "deposit" ->
                       deposit(st, nested.user, nested.uta, nested.vta, nested.amt, ts)
                    [] nested.ix = "withdraw" ->
                       withdraw(st, nested.user, nested.uta, nested.vta, nested.amt, ts)
                    [] OTHER -> Fail(st, "InstructionFallbackNotFound")
         IN [ok |-> r.err = "Ok", st |-> r.st]
    ELSE LET cb == invoke(st.token, script)
         IN [ok |-> cb.ok, st |-> [st EXCEPT !.token = cb.tok]]

\* a configuration test that lets an unconfigured vault lend
flash_loan_configured_always(v) == TRUE

\* flash loans are configured: the fee treasury is set
flash_loan_configured(v) == v.fee_treasury # DefaultPubkey

\* an allow-list test that admits every program
callback_allowed_always(v, callback_program) == TRUE

\* the callback program passes the allow-list test
callback_allowed(v, callback_program) ==
  v.callback_allowlist_enabled =>
    \E i \in 1..Len(v.callback_allowlist) : v.callback_allowlist[i] = callback_program

\* the fee of a loan: floor(amount * flash_fee_bps / 10000)
flash_fee(amount, flash_fee_bps) == (amount * flash_fee_bps) \div BPS_DENOMINATOR

\* a repayment check that forgets the fee
repayment_ok_without_fee(balance_after, balance_before, fee) ==
  balance_after >= balance_before

\* a repayment check that wants more than principal and fee
repayment_ok_strict(balance_after, balance_before, fee) ==
  balance_after > balance_before + fee

\* the repayment check of flash_loan
repayment_ok(balance_after, balance_before, fee) ==
  balance_after >= balance_before + fee

\* a fee that stays in the lending account
route_fee_dropped(tok, vault_token_account, fee_treasury_token_account, fee) == tok

\* the fee goes from the lending account to the treasury's account
route_fee(tok, vault_token_account, fee_treasury_token_account, fee) ==
  IF fee > 0
    THEN token_transfer(tok, vault_token_account, fee_treasury_token_account, fee)
    ELSE tok

\* a validation that accepts every call
flash_loan_validate_skipped(v, borrower, borrower_token_account, fee_treasury_token_account, callback_program, amount) == "Ok"

\* the checks flash_loan makes before it reads the lending account's balance
flash_loan_validate(v, borrower, borrower_token_account, fee_treasury_token_account, callback_program, amount) ==
  IF amount = 0 THEN "InvalidFlashLoanAmount"
  ELSE IF ~flash_loan_configured(v) THEN "FlashLoanNotConfigured"
  ELSE IF Mint[borrower_token_account] # v.token_mint
         \/ Owner[borrower_token_account] # borrower
    THEN "InvalidTokenMint"
  ELSE IF Mint[fee_treasury_token_account] # v.token_mint
         \/ Owner[fee_treasury_token_account] # v.fee_treasury
    THEN "InvalidFeeTreasury"
  ELSE IF ~callback_allowed(v, callback_program) THEN "CallbackNotAllowlisted"
  ELSE "Ok"

(***************************************************************************)
(* flash_loan.  out is the fee, aux the amount the callback put back into  *)
(* the lending account.  The handler holds the vault account as it read it *)
(* on entry and stores that copy when it returns; the token accounts and   *)
(* the positions are as the callback left them.                            *)
(***************************************************************************)
flash_loan(st, borrower, borrower_token_account, fee_treasury_token_account, vault_token_account, callback_program, amount, script, nested, ts) ==
  LET v == st.vault
      checked == flash_loan_validate(v, borrower, borrower_token_account,
                                     fee_treasury_token_account, callback_program, amount)
  IN
  IF checked # "Ok" THEN Fail(st, checked)
  ELSE
    LET balance_before == st.token[vault_token_account]
        fee == flash_fee(amount, v.flash_fee_bps)
    IN IF balance_before < amount THEN Fail(st, "InsufficientVaultBalance")
       ELSE IF ~CanTransfer(st.token, vault_token_account, borrower_token_account,
                            VaultAuthority, amount)
         THEN Fail(st, "TokenError")
       ELSE
         LET tok1 == token_transfer(st.token, vault_token_account,
                                    borrower_token_account, amount)
             cb == invoke_callback([st EXCEPT !.token = tok1], callback_program,
                                   script, nested, ts)
             balance_after == cb.st.token[vault_token_account]
             returned == balance_after - tok1[vault_token_account]
         IN IF ~cb.ok THEN Fail(st, "CallbackFailed")
            ELSE IF ~repayment_ok(balance_after, balance_before, fee)
              THEN [Fail(st, "InsufficientRepayment") EXCEPT !.out = fee, !.aux = returned]
            ELSE
              LET tok2 == route_fee(cb.st.token, vault_token_account,
                                    fee_treasury_token_account, fee)
              IN Done([vault |-> v, positions |-> cb.st.positions, token |-> tok2],
                      fee, returned)

(***************************************************************************)
(* mock-amm.  The pool account, as initialize_pool writes it, names the    *)
(* two mints and the two reserve accounts; the reserves are the balances   *)
(* of those accounts.                                                      *)
(***************************************************************************)
Pool ==
  [mint_a |-> "reward", mint_b |-> "asset",
   vault_a |-> "pool_a", vault_b |-> "pool_b", authority |-> Admin]

\* the result of an instruction of mock-amm: the balances it leaves and the
\* amount it paid out
AmmFail(tok, e) == [err |-> e, tok |-> tok, out |-> 0]
AmmDone(tok, o) == [err |-> "Ok", tok |-> tok, out |-> o]

initialize_pool(tok, authority, authority_token_account_a, authority_token_account_b, initial_amount_a, initial_amount_b) ==
  IF initial_amount_a = 0 \/ initial_amount_b = 0 THEN AmmFail(tok, "InvalidAmount")
  ELSE IF Mint[Pool.vault_a] # Pool.mint_a \/ Mint[Pool.vault_b] # Pool.mint_b
    THEN AmmFail(tok, "InvalidMint")
  ELSE IF Owner[Pool.vault_a] # PoolAuthority \/ Owner[Pool.vault_b] # PoolAuthority
    THEN AmmFail(tok, "InvalidMint")
  ELSE IF ~CanTransfer(tok, authority_token_account_a, Pool.vault_a, authority,
                       initial_amount_a)
    THEN AmmFail(tok, "TokenError")
  ELSE
    LET tok1 == token_transfer(tok, authority_token_account_a, Pool.vault_a,
                               initial_amount_a)
    IN IF ~CanTransfer(tok1, authority_token_account_b, Pool.vault_b, authority,
                       initial_amount_b)
         THEN AmmFail(tok, "TokenError")
         ELSE AmmDone(token_transfer(tok1, authority_token_account_b, Pool.vault_b,
                                     initial_amount_b), 0)

\* an output rounded up
amount_out_rounded_up(amount_in, reserve_in, reserve_out) ==
  (amount_in * reserve_out + reserve_in + amount_in - 1) \div (reserve_in + amount_in)

\* the output of the constant-product formula: floor(amount_in * reserve_out /
\* (reserve_in + amount_in))
amount_out_for(amount_in, reserve_in, reserve_out) ==
  (amount_in * reserve_out) \div (reserve_in + amount_in)

swap(tok, user, user_token_in, user_token_out, amount_in, min_amount_out) ==
  IF amount_in = 0 THEN AmmFail(tok, "InvalidAmount")
  ELSE IF Mint[user_token_in] \notin {Pool.mint_a, Pool.mint_b}
         \/ Mint[user_token_out] \notin {Pool.mint_a, Pool.mint_b}
    THEN AmmFail(tok, "InvalidMint")
  ELSE IF Mint[user_token_in] = Mint[user_token_out] THEN AmmFail(tok, "SameMint")
  ELSE
    LET a_in == Mint[user_token_in] = Pool.mint_a
        vault_in == IF a_in THEN Pool.vault_a ELSE Pool.vault_b
        vault_out == IF a_in THEN Pool.vault_b ELSE Pool.vault_a
        reserve_in == tok[vault_in]
        reserve_out == tok[vault_out]
        amount_out == amount_out_for(amount_in, reserve_in, reserve_out)
    IN IF reserve_in = 0 \/ reserve_out = 0 THEN AmmFail(tok, "InsufficientLiquidity")
       ELSE IF reserve_in + amount_in >= U64_RANGE THEN AmmFail(tok, "MathOverflow")
       ELSE IF amount_out < min_amount_out THEN AmmFail(tok, "SlippageExceeded")
       ELSE IF amount_out = 0 THEN AmmFail(tok, "InvalidAmount")
       ELSE IF ~CanTransfer(tok, user_token_in, vault_in, user, amount_in)
         THEN AmmFail(tok, "TokenError")
       ELSE
         LET tok1 == token_transfer(tok, user_token_in, vault_in, amount_in)
         IN IF ~CanTransfer(tok1, vault_out, user_token_out, PoolAuthority, amount_out)
              THEN AmmFail(tok, "TokenError")
              ELSE AmmDone(token_transfer(tok1, vault_out, user_token_out, amount_out),
                           amount_out)

(***************************************************************************)
(* composer-router-dynamic.  The configuration account holds the authority *)
(* and the allow-list of swap programs.  The result of deposit_swap_stake  *)
(* carries, next to what a vault instruction returns, the cross-program    *)
(* calls it issued, in order.                                              *)
(***************************************************************************)
\* a length test that admits every list
swap_programs_fit_any(swap_programs) == TRUE

\* the list respects the capacity of the configuration account
swap_programs_fit(swap_programs) == Len(swap_programs) <= MAX_SWAP_PROGRAMS

initialize_router_config(cfg, authority, swap_programs) ==
  IF cfg.initialized THEN [err |-> "AccountAlreadyInUse", cfg |-> cfg]
  ELSE IF ~swap_programs_fit(swap_programs) THEN [err |-> "TooManyPrograms", cfg |-> cfg]
  ELSE [err |-> "Ok",
        cfg |-> [initialized |-> TRUE, authority |-> authority,
                 swap_programs |-> swap_programs]]

update_swap_programs(cfg, authority, swap_programs) ==
  IF ~cfg.initialized THEN [err |-> "AccountNotInitialized", cfg |-> cfg]
  ELSE IF cfg.authority # authority THEN [err |-> "Unauthorized", cfg |-> cfg]
  ELSE IF ~swap_programs_fit(swap_programs) THEN [err |-> "TooManyPrograms", cfg |-> cfg]
  ELSE [err |-> "Ok", cfg |-> [cfg EXCEPT !.swap_programs = swap_programs]]

\* a membership test that every program passes
swap_program_listed_always(cfg, swap_program) == TRUE

\* config.swap_programs.contains(swap_program)
swap_program_listed(cfg, swap_program) ==
  \E i \in 1..Len(cfg.swap_programs) : cfg.swap_programs[i] = swap_program

\* a result of deposit_swap_stake with the calls it issued
Routed(r, calls) ==
  [err |-> r.err, st |-> r.st, out |-> r.out, aux |-> r.aux, wrapped |-> r.wrapped,
   calls |-> calls]

\* the swap instruction as swap_program executes it: mock-amm runs swap; the
\* other programs of the model have no such instruction
invoke_swap(tok, swap_program, user, user_token_in, user_token_out, amount_in, min_amount_out) ==
  IF swap_program = AmmProgram
    THEN swap(tok, user, user_token_in, user_token_out, amount_in, min_amount_out)
    ELSE AmmFail(tok, "InstructionFallbackNotFound")

\* the deposit instruction as vault_program executes it
invoke_deposit(st, vault_program, user, user_token_account, vault_token_account, amount, ts) ==
  IF vault_program = VaultProgram
    THEN deposit(st, user, user_token_account, vault_token_account, amount, ts)
    ELSE Fail(st, "InstructionFallbackNotFound")

\* seeds tells, for each of the two invoke_signed calls, whether the signer
\* seeds the router passes make a program address under the router's own id
\* (which depends on the keys involved); the call is refused when they do not
deposit_swap_stake(st, cfg, user, input_token_account, output_token_account, swap_program, vault_program, vault_user_token_account, vault_token_account, seeds, swap_amount_in, min_amount_out, vault_deposit_amount, expected_input_mint, expected_output_mint, ts) ==
  IF ~cfg.initialized THEN Routed(Fail(st, "AccountNotInitialized"), <<>>)
  ELSE IF swap_amount_in = 0 \/ min_amount_out = 0 \/ vault_deposit_amount = 0
    THEN Routed(Fail(st, "InvalidAmount"), <<>>)
  ELSE IF ~swap_program_listed(cfg, swap_program)
    THEN Routed(Fail(st, "SwapProgramNotAllowlisted"), <<>>)
  ELSE IF Mint[input_token_account] # expected_input_mint
         \/ Mint[output_token_account] # expected_output_mint
    THEN Routed(Fail(st, "InvalidMint"), <<>>)
  ELSE IF Owner[input_token_account] # user \/ Owner[output_token_account] # user
    THEN Routed(Fail(st, "InvalidTokenAccountOwner"), <<>>)
  ELSE IF st.token[input_token_account] < swap_amount_in
    THEN Routed(Fail(st, "InsufficientBalance"), <<>>)
  ELSE IF ~seeds.swap THEN Routed(Fail(st, "BadSeeds"), <<>>)
  ELSE
    LET swapped == invoke_swap(st.token, swap_program, user, input_token_account,
                               output_token_account, swap_amount_in, min_amount_out)
        swap_call == [ix |-> "swap", program |-> swap_program, ok |-> swapped.err = "Ok"]
        st1 == [st EXCEPT !.token = swapped.tok]
    IN IF swapped.err # "Ok" THEN Routed(Fail(st, swapped.err), <<swap_call>>)
       ELSE IF vault_user_token_account # output_token_account
         THEN Routed(Fail(st, "InvalidMint"), <<swap_call>>)
       ELSE IF ~seeds.vault THEN Routed(Fail(st, "BadSeeds"), <<swap_call>>)
       ELSE
         LET deposited == invoke_deposit(st1, vault_program, user, vault_user_token_account,
                                         vault_token_account, vault_deposit_amount, ts)
             deposit_call == [ix |-> "deposit", program |-> vault_program,
                              ok |-> deposited.err = "Ok"]
         IN IF deposited.err # "Ok"
              THEN Routed(Fail(st, deposited.err), <<swap_call, deposit_call>>)
              ELSE Routed([Done(deposited.st, swapped.out, deposited.out)
                             EXCEPT !.wrapped = deposited.wrapped],
                          <<swap_call, deposit_call>>)

(***************************************************************************)
(* State, initial state and actions.  A failed instruction is rolled back  *)
(* by the ledger: it leaves every variable as it was.                      *)
(***************************************************************************)
Cur == [vault |-> vault, positions |-> positions, token |-> token]

\* the last instruction that succeeded
Outcome(op, user, r, arg, slot) ==
  [op |-> op, user |-> user, arg |-> arg, out |-> r.out, aux |-> r.aux, slot |-> slot]

\* the reward units the catch-up of instruction op emits when it runs now:
\* reward_rate times the seconds since the last catch-up, while shares exist
Emission(op) ==
  IF /\ op \in {"deposit", "withdraw", "claim_rewards"}
     /\ vault.total_shares > 0
     /\ now > vault.last_update_ts
    THEN vault.reward_rate * (now - vault.last_update_ts)
    ELSE 0

\* the history after instruction op returned r: what each depositor put in
\* while only deposits were made and, in a metered run, the reward units
\* emitted by catch-ups and those paid out by claim_rewards
Recorded(r, op, user) ==
  LET h == IF op = "deposit" /\ hist.deposits_only
             THEN [hist EXCEPT !.contributed[user] =
                     @ + (r.st.token["custody"] - token["custody"])]
             ELSE [hist EXCEPT !.contributed = [u \in Users |-> 0],
                               !.deposits_only = FALSE]
  IN IF hist.metered
       THEN [h EXCEPT !.emitted = @ + Emission(op),
                      !.paid = @ + (IF op = "claim_rewards" THEN r.out ELSE 0)]
       ELSE h

\* r is the result of instruction op: commit it, or roll it back
Apply(r, op, user, arg, slot) ==
  IF r.err = "Ok"
    THEN /\ vault' = r.st.vault
         /\ positions' = r.st.positions
         /\ token' = r.st.token
         /\ last' = Outcome(op, user, r, arg, slot)
         /\ hist' = Recorded(r, op, user)
         /\ UNCHANGED <<frame, config>>
    ELSE UNCHANGED <<vault, positions, token, last, hist, frame, config>>

\* Apply, for results within the share counts the model explores
Commit(r, op, user, arg, slot) ==
  /\ r.err = "Ok" =>
       /\ r.st.vault.total_shares <= MaxShares
       /\ \A u \in Users : r.st.positions[u].shares <= MaxShares
  /\ Apply(r, op, user, arg, slot)

\* the program state before anything happened
InitialState ==
  [vault |-> initialize_vault(Admin, 0),
   positions |-> [u \in Users |-> ClosedPosition],
   token |-> [a \in Accounts |->
                CASE a \in {"w1", "w2"} -> InitWallet
                  [] a = "fw" -> InitFunder
                  [] OTHER -> 0]]

\* a flash-loan call of the model that is never issued
NoCall ==
  [borrower |-> "-", bta |-> "-", fta |-> "-", slot |-> "-", cb |-> "-",
   amount |-> 0, script |-> <<>>, nested |-> NoNested]

\* no flash loan is executing
IdleFrame ==
  [pc |-> "idle", call |-> NoCall, entry |-> InitialState,
   balance_before |-> 0, fee |-> 0]

\* the router's configuration account before initialize_router_config
NoConfig == [initialized |-> FALSE, authority |-> DefaultPubkey, swap_programs |-> <<>>]

\* nothing has happened yet
NoHistory ==
  [contributed |-> [u \in Users |-> 0], deposits_only |-> TRUE,
   metered |-> FALSE, emitted |-> 0, paid |-> 0]

Init ==
  /\ now = 0
  /\ vault = initialize_vault(Admin, now)
  /\ positions = [u \in Users |-> ClosedPosition]
  /\ token = [a \in Accounts |->
                CASE a \in {"w1", "w2"} -> InitWallet
                  [] a = "fw" -> InitFunder
                  [] OTHER -> 0]
  /\ last = [op |-> "initialize_vault", user |-> Admin, arg |-> 0,
             out |-> 0, aux |-> 0, slot |-> "-"]
  /\ hist = NoHistory
  /\ frame = IdleFrame
  /\ config = NoConfig

\* the state after construction, in a run that meters the rewards
InitMetered ==
  /\ now = 0
  /\ vault = initialize_vault(Admin, now)
  /\ positions = [u \in Users |-> ClosedPosition]
  /\ token = InitialState.token
  /\ last = [op |-> "initialize_vault", user |-> Admin, arg |-> 0,
             out |-> 0, aux |-> 0, slot |-> "-"]
  /\ hist = [NoHistory EXCEPT !.metered = TRUE]
  /\ frame = IdleFrame
  /\ config = NoConfig

\* the stakes the reward-distribution properties start from: the shares of
\* the two depositors (s2 = 0: a single depositor) and the reward rate.  A
\* single depositor holds few shares or up to several times REWARD_PRECISION;
\* two depositors hold few shares each; and the two stakes of the worked
\* examples.
StakeCases ==
  {[s1 |-> s, s2 |-> 0, rate |-> r] :
     s \in (1..MaxShares) \cup {(k * REWARD_PRECISION) \div 2 : k \in 1..(MaxShares + 1)},
     r \in 1..MaxRate}
  \cup {[s1 |-> a, s2 |-> b, rate |-> r] :
          a \in 1..InitWallet, b \in 1..InitWallet, r \in 1..MaxRate}
  \cup {[s1 |-> 100, s2 |-> 0, rate |-> 1000], [s1 |-> 100, s2 |-> 300, rate |-> 400]}

\* the times a claim is made at: up to MaxTime, and 10 or 100 seconds on
ClaimTimes == (now..MaxTime) \cup {now + 10, now + 100}

\* the program state at time 0 after the funder funded the reward pool at the
\* rate of stake c and the depositors deposited its amounts into an empty vault
StakedState(c) ==
  LET pool == c.rate * (MaxTime + 100)
      genesis == [InitialState EXCEPT
                    !.token = [@ EXCEPT !["w1"] = c.s1, !["w2"] = c.s2, !["fw"] = pool]]
      funded == fund_rewards(genesis, Admin, "fw", "rvault", pool, c.rate)
      first == deposit(funded.st, "u1", "w1", "custody", c.s1, 0)
      second == IF c.s2 > 0 THEN deposit(first.st, "u2", "w2", "custody", c.s2, 0)
                ELSE first
  IN second.st

InitStaked ==
  /\ now = 0
  /\ \E c \in StakeCases :
       /\ vault = StakedState(c).vault
       /\ positions = StakedState(c).positions
       /\ token = StakedState(c).token
       /\ last = [op |-> "deposit", user |-> IF c.s2 > 0 THEN "u2" ELSE "u1",
                  arg |-> IF c.s2 > 0 THEN c.s2 ELSE c.s1,
                  out |-> IF c.s2 > 0 THEN c.s2 ELSE c.s1, aux |-> 0, slot |-> "custody"]
  /\ hist = [NoHistory EXCEPT !.deposits_only = FALSE]
  /\ frame = IdleFrame
  /\ config = NoConfig

\* a depositor claims
StakedClaim ==
  \E u \in Users :
    /\ Apply(claim_rewards(Cur, u, RewardWallet[u], "rvault", now),
             "claim_rewards", u, 0, "rvault")
    /\ UNCHANGED now

\* the accounts a caller passes in the vault-custody slot of an instruction:
\* the vault's custody account, the reward custody account, or the wallet
\* of somebody else
CustodySlots(u) == {"custody", "rvault"} \cup {Wallet[w] : w \in Users \ {u}}

Deposit ==
  \E u \in Users : \E slot \in CustodySlots(u), amount \in 0..InitWallet :
    /\ Commit(deposit(Cur, u, Wallet[u], slot, amount, now), "deposit", u, amount, slot)
    /\ UNCHANGED now

\* a deposit that passes the vault's own custody account
DepositToCustody ==
  \E u \in Users, amount \in 0..InitWallet :
    /\ Commit(deposit(Cur, u, Wallet[u], "custody", amount, now),
              "deposit", u, amount, "custody")
    /\ UNCHANGED now

Withdraw ==
  \E u \in Users : \E slot \in CustodySlots(u), dest \in {Wallet[u], RewardWallet[u]},
                       shares \in 0..(2 * InitWallet) :
    /\ Commit(withdraw(Cur, u, dest, slot, shares, now), "withdraw", u, shares, slot)
    /\ UNCHANGED now

FundRewards ==
  \E amount \in 0..InitFunder, rate \in 0..MaxRate, rv \in {"rvault", "custody"} :
    /\ Commit(fund_rewards(Cur, Admin, "fw", rv, amount, rate),
              "fund_rewards", Admin, amount, rv)
    /\ UNCHANGED now

ClaimRewards ==
  \E u \in Users :
    /\ Commit(claim_rewards(Cur, u, RewardWallet[u], "rvault", now),
              "claim_rewards", u, 0, "rvault")
    /\ UNCHANGED now

\* the configuration calls the model issues: fee, treasury, enabled, allowlist
ConfigCalls ==
  << << <<5000>>, <<TreasuryKey>>, <<>>, <<>> >>,
     << <<0>>, <<TreasuryKey>>, <<>>, <<>> >>,
     << <<>>, <<>>, <<TRUE>>, << <<"cb1">> >> >>,
     << <<0>>, <<DefaultPubkey>>, <<FALSE>>, << <<>> >> >>,
     << <<10001>>, <<TreasuryKey>>, <<>>, <<>> >>,
     << <<5000>>, <<>>, <<>>, << [i \in 1..(MAX_CALLBACK_PROGRAMS + 1) |-> "cb1"] >> >> >>

UpdateFlashLoanConfig ==
  \E signer \in {Admin, "u1"}, i \in 1..Len(ConfigCalls) :
    LET c == ConfigCalls[i]
    IN /\ Commit(update_flash_loan_config(Cur, signer, c[1], c[2], c[3], c[4]),
                 "update_flash_loan_config", signer, 0, "-")
       /\ UNCHANGED now

\* one transfer of a callback: out of a user's wallet into the custody account
Steps == {[from |-> Wallet[u], to |-> "custody", amt |-> k] : u \in Users, k \in 1..InitWallet}

\* the callbacks of the model for borrower b: up to MaxCallbackSteps transfers,
\* the first by the borrower, the later ones of one token each by anybody
RECURSIVE Scripts(_, _)
Scripts(b, n) ==
  IF n = 0 THEN {<<>>}
  ELSE LET shorter == Scripts(b, n - 1)
       IN shorter \cup {Append(s, x) : s \in {t \in shorter : Len(t) = n - 1},
                                       x \in {y \in Steps : IF n = 1 THEN y.from = Wallet[b]
                                                                     ELSE y.amt = 1}}

\* the flash-loan calls of the model: well-formed calls with every callback,
\* and calls with one wrong account or callback program
FlashCalls ==
  UNION {{[borrower |-> b, bta |-> Wallet[b], fta |-> "tacc", slot |-> "custody",
            cb |-> "cb1", amount |-> k, script |-> s, nested |-> NoNested] :
             k \in 0..InitWallet, s \in Scripts(b, MaxCallbackSteps)} : b \in Users}
  \cup
  {[borrower |-> "u1", bta |-> x[1], fta |-> x[2], slot |-> x[3], cb |-> x[4],
    amount |-> 1, script |-> <<[from |-> "w1", to |-> "custody", amt |-> 1]>>,
    nested |-> NoNested] :
     x \in {<<"w2", "tacc", "custody", "cb1">>, <<"w1", "w1", "custody", "cb1">>,
            <<"w1", "tacc", "rvault", "cb1">>, <<"w1", "tacc", "custody", "cb2">>}}

FlashLoan ==
  \E c \in FlashCalls :
    /\ Commit(flash_loan(Cur, c.borrower, c.bta, c.fta, c.slot, c.cb, c.amount, c.script,
                         c.nested, now),
              "flash_loan", c.borrower, c.amount, c.slot)
    /\ UNCHANGED now

\* the flash loans whose callback is a deposit or a withdraw of the borrower on
\* this vault
NestedFlashCalls ==
  {[borrower |-> b, bta |-> Wallet[b], fta |-> "tacc", slot |-> "custody",
    cb |-> VaultProgram, amount |-> k, script |-> <<>>,
    nested |-> [ix |-> i, user |-> b,
                uta |-> Wallet[b], vta |-> "custody", amt |-> a]] :
     b \in Users, k \in 1..InitWallet, i \in {"deposit", "withdraw"},
     a \in 1..(InitWallet + 1)}

FlashLoanNested ==
  \E c \in NestedFlashCalls :
    /\ Commit(flash_loan(Cur, c.borrower, c.bta, c.fta, c.slot, c.cb, c.amount, c.script,
                         c.nested, now),
              "flash_loan", c.borrower, c.amount, c.slot)
    /\ UNCHANGED now

\* the flash loans of one borrower whose callback makes at most one transfer,
\* or repays a loan of the largest amount in two transfers
ShortFlashCalls ==
  {c \in FlashCalls : c.borrower = "u1" /\ Len(c.script) <= 1}
  \cup {c \in FlashCalls : /\ c.borrower = "u1" /\ c.amount = InitWallet
                           /\ Len(c.script) = 2 /\ c.script[1].amt = InitWallet}

FlashLoanShort ==
  \E c \in ShortFlashCalls :
    /\ Commit(flash_loan(Cur, c.borrower, c.bta, c.fta, c.slot, c.cb, c.amount, c.script,
                         c.nested, now),
              "flash_loan", c.borrower, c.amount, c.slot)
    /\ UNCHANGED now

\* the depositor the reward properties follow, and another shareholder
Staker == "u1"
Other == "u2"

StakerDeposit ==
  \E amount \in 1..InitWallet :
    /\ Commit(deposit(Cur, Staker, Wallet[Staker], "custody", amount, now),
              "deposit", Staker, amount, "custody")
    /\ UNCHANGED now

\* the other shareholder deposits once
OtherDeposit ==
  \E amount \in 1..InitWallet :
    /\ ~positions[Other].open
    /\ Commit(deposit(Cur, Other, Wallet[Other], "custody", amount, now),
              "deposit", Other, amount, "custody")
    /\ UNCHANGED now

StakerWithdraw ==
  \E shares \in 0..MaxShares :
    /\ Commit(withdraw(Cur, Staker, Wallet[Staker], "custody", shares, now),
              "withdraw", Staker, shares, "custody")
    /\ UNCHANGED now

StakerClaim ==
  /\ Commit(claim_rewards(Cur, Staker, RewardWallet[Staker], "rvault", now),
            "claim_rewards", Staker, 0, "rvault")
  /\ UNCHANGED now

\* the funder puts its reward tokens into the reward custody account and sets
\* the rate
FundRewardVault ==
  \E rate \in 1..MaxRate :
    /\ Commit(fund_rewards(Cur, Admin, "fw", "rvault", InitFunder, rate),
              "fund_rewards", Admin, InitFunder, "rvault")
    /\ UNCHANGED now

\* a plain token transfer of a holder into the custody account, outside the program
Donate ==
  \E u \in Users, amount \in 1..InitWallet :
    /\ CanTransfer(token, Wallet[u], "custody", u, amount)
    /\ token' = token_transfer(token, Wallet[u], "custody", amount)
    /\ last' = [op |-> "transfer", user |-> u, arg |-> amount, out |-> 0,
                aux |-> 0, slot |-> "custody"]
    /\ hist' = [hist EXCEPT !.contributed = [w \in Users |-> 0],
                            !.deposits_only = FALSE]
    /\ UNCHANGED <<vault, positions, now, frame, config>>

\* a third party transfers one token into the custody account, outside the
\* program, once
DonateOne ==
  /\ token[Wallet[Other]] = InitWallet
  /\ CanTransfer(token, Wallet[Other], "custody", Other, 1)
  /\ token' = token_transfer(token, Wallet[Other], "custody", 1)
  /\ last' = [op |-> "transfer", user |-> Other, arg |-> 1, out |-> 0,
              aux |-> 0, slot |-> "custody"]
  /\ hist' = [hist EXCEPT !.contributed = [w \in Users |-> 0],
                          !.deposits_only = FALSE]
  /\ UNCHANGED <<vault, positions, now, frame, config>>

\* the state after initialize_pool: the creator has put the initial reserves
\* into the pool
InitAmm ==
  /\ now = 0
  /\ vault = initialize_vault(Admin, now)
  /\ positions = [u \in Users |-> ClosedPosition]
  /\ \E a \in 1..InitLiquidity, b \in 1..InitLiquidity :
       token = initialize_pool([InitialState.token EXCEPT !["la"] = InitLiquidity,
                                                        !["lb"] = InitLiquidity],
                               Admin, "la", "lb", a, b).tok
  /\ last = [op |-> "initialize_pool", user |-> Admin, arg |-> 0,
             out |-> 0, aux |-> 0, slot |-> "-"]
  /\ hist = NoHistory
  /\ frame = IdleFrame
  /\ config = NoConfig

\* the swaps of the model: a user sells out of their own account of one mint
\* into their own account of the other, a small amount or the largest a u64
\* holds
SwapCalls ==
  UNION {{[user |-> u, token_in |-> x[1], token_out |-> x[2],
            amount_in |-> k, min_amount_out |-> m] :
             x \in {<<Wallet[u], RewardWallet[u]>>, <<RewardWallet[u], Wallet[u]>>},
             k \in (0..MaxSwap) \cup {U64_RANGE - 1}, m \in 0..MaxSwap} : u \in Users}

SwapResult(c) == swap(token, c.user, c.token_in, c.token_out, c.amount_in, c.min_amount_out)

Swap ==
  \E c \in SwapCalls :
    /\ SwapResult(c).err = "Ok"
    /\ token' = SwapResult(c).tok
    /\ last' = [op |-> "swap", user |-> c.user, arg |-> c.amount_in,
                out |-> SwapResult(c).out, aux |-> c.min_amount_out, slot |-> c.token_in]
    /\ UNCHANGED <<vault, positions, now, hist, frame, config>>

\* a third party transfers one token into a reserve account of the pool
DonateToPool ==
  \E u \in Users :
    /\ CanTransfer(token, Wallet[u], Pool.vault_b, u, 1)
    /\ token' = token_transfer(token, Wallet[u], Pool.vault_b, 1)
    /\ last' = [op |-> "transfer", user |-> u, arg |-> 1, out |-> 0,
                aux |-> 0, slot |-> Pool.vault_b]
    /\ UNCHANGED <<vault, positions, now, hist, frame, config>>

\* the state the router starts from: the pool of mock-amm is funded, the users
\* hold tokens of the pool's other mint, the router is not configured
InitRouter ==
  /\ now = 0
  /\ vault = initialize_vault(Admin, now)
  /\ positions = [u \in Users |-> ClosedPosition]
  /\ \E a \in 1..InitLiquidity :
       token = initialize_pool([InitialState.token EXCEPT !["la"] = InitLiquidity,
                                                        !["lb"] = InitLiquidity,
                                                        !["r1"] = InitWallet,
                                                        !["r2"] = InitWallet],
                               Admin, "la", "lb", a, InitLiquidity).tok
  /\ last = [op |-> "initialize_pool", user |-> Admin, arg |-> 0,
             out |-> 0, aux |-> 0, slot |-> "-"]
  /\ hist = NoHistory
  /\ frame = IdleFrame
  /\ config = NoConfig

\* a list of n programs that starts with mock-amm
ProgramList(n) == [i \in 1..n |-> IF i = 1 THEN AmmProgram ELSE "cb1"]

\* the allow-lists passed to the router: empty, with and without mock-amm, at
\* the capacity of the account and one above it
SwapProgramLists ==
  {<<>>, <<AmmProgram>>, <<VaultProgram>>, <<"cb1", AmmProgram>>,
   ProgramList(MAX_SWAP_PROGRAMS), ProgramList(MAX_SWAP_PROGRAMS + 1)}

RouterSigners == {Admin, "u1"}

InitializeRouterConfig ==
  \E signer \in RouterSigners, swap_programs \in SwapProgramLists :
    LET r == initialize_router_config(config, signer, swap_programs)
    IN /\ r.err = "Ok"
       /\ config' = r.cfg
       /\ last' = [op |-> "initialize_router_config", user |-> signer,
                   arg |-> Len(swap_programs), out |-> 0, aux |-> 0, slot |-> "-"]
       /\ UNCHANGED <<vault, positions, token, now, hist, frame>>

UpdateSwapPrograms ==
  \E signer \in RouterSigners, swap_programs \in SwapProgramLists :
    LET r == update_swap_programs(config, signer, swap_programs)
    IN /\ r.err = "Ok"
       /\ config' = r.cfg
       /\ last' = [op |-> "update_swap_programs", user |-> signer,
                   arg |-> Len(swap_programs), out |-> 0, aux |-> 0, slot |-> "-"]
       /\ UNCHANGED <<vault, positions, token, now, hist, frame>>

\* the deposit_swap_stake calls of the model: a user sells tokens of the
\* pool's first mint for the vault's asset and deposits them, through mock-amm
\* or another program, with either signer-seed test failing or none
RouterCalls ==
  UNION {{[user |-> u, input |-> RewardWallet[u], output |-> Wallet[u],
           swap_program |-> sp, vault_program |-> vp, seeds |-> sd,
           swap_amount_in |-> k, min_amount_out |-> m, vault_deposit_amount |-> d] :
            sp \in {AmmProgram, VaultProgram}, vp \in {VaultProgram, AmmProgram},
            sd \in {[swap |-> TRUE, vault |-> TRUE], [swap |-> FALSE, vault |-> TRUE],
                    [swap |-> TRUE, vault |-> FALSE]},
            k \in 0..InitWallet, m \in 0..1, d \in 0..InitWallet} : u \in Users}

RouterResult(c) ==
  deposit_swap_stake(Cur, config, c.user, c.input, c.output, c.swap_program,
                     c.vault_program, c.output, "custody", c.seeds, c.swap_amount_in,
                     c.min_amount_out, c.vault_deposit_amount, Mint[c.input],
                     Mint[c.output], now)

DepositSwapStake ==
  \E c \in RouterCalls :
    /\ Commit(RouterResult(c), "deposit_swap_stake", c.user, c.swap_amount_in, "custody")
    /\ UNCHANGED now

\* the clock advances
Tick ==
  /\ now < MaxTime
  /\ now' = now + 1
  /\ UNCHANGED <<vault, positions, token, last, hist, frame, config>>

(***************************************************************************)
(* flash_loan statement by statement.  frame.pc names the step the         *)
(* executing flash_loan takes next ("idle": none is executing), frame.entry *)
(* the program state the transaction started from: the ledger restores it  *)
(* when a step fails, and its vault is the copy the handler stores when it *)
(* returns.                                                                *)
(***************************************************************************)
\* the calls the statement-level flash loan is started with: the short ones,
\* and those whose callback is a deposit or withdraw of one unit
StepCalls ==
  ShortFlashCalls
  \cup {c \in NestedFlashCalls : c.borrower = "u1" /\ c.amount = 1 /\ c.nested.amt = 1}

\* a step failed: the transaction is rolled back
Abort ==
  /\ vault' = frame.entry.vault
  /\ positions' = frame.entry.positions
  /\ token' = frame.entry.token
  /\ frame' = IdleFrame
  /\ UNCHANGED <<now, last, hist, config>>

\* a call enters the handler and passes its checks; a call that fails them
\* changes nothing
FlashValidate ==
  /\ frame.pc = "idle"
  /\ \E c \in StepCalls :
       /\ flash_loan_validate(vault, c.borrower, c.bta, c.fta, c.cb, c.amount) = "Ok"
       /\ frame' = [pc |-> "snapshot", call |-> c, entry |-> Cur,
                    balance_before |-> 0, fee |-> 0]
  /\ UNCHANGED <<vault, positions, token, now, last, hist, config>>

\* balance_before is read, compared with amount, and the fee computed
FlashSnapshot ==
  /\ frame.pc = "snapshot"
  /\ LET balance_before == token[frame.call.slot]
     IN IF balance_before < frame.call.amount
          THEN Abort
          ELSE /\ frame' = [frame EXCEPT !.pc = "disburse",
                                         !.balance_before = balance_before,
                                         !.fee = flash_fee(frame.call.amount,
                                                           vault.flash_fee_bps)]
               /\ UNCHANGED <<vault, positions, token, now, last, hist, config>>

\* amount goes from the lending account to the borrower
FlashDisburse ==
  /\ frame.pc = "disburse"
  /\ LET c == frame.call
     IN IF ~CanTransfer(token, c.slot, c.bta, VaultAuthority, c.amount)
          THEN Abort
          ELSE /\ token' = token_transfer(token, c.slot, c.bta, c.amount)
               /\ frame' = [frame EXCEPT !.pc = "invoke"]
               /\ UNCHANGED <<vault, positions, now, last, hist, config>>

\* the callback runs
FlashInvoke ==
  /\ frame.pc = "invoke"
  /\ LET c == frame.call
         cb == invoke_callback(Cur, c.cb, c.script, c.nested, now)
     IN IF ~cb.ok
          THEN Abort
          ELSE /\ cb.st.vault.total_shares <= MaxShares
               /\ \A u \in Users : cb.st.positions[u].shares <= MaxShares
               /\ vault' = cb.st.vault
               /\ positions' = cb.st.positions
               /\ token' = cb.st.token
               /\ frame' = [frame EXCEPT !.pc = "verify"]
               /\ UNCHANGED <<now, last, hist, config>>

\* the lending account's balance is read again and compared
FlashVerify ==
  /\ frame.pc = "verify"
  /\ IF ~repayment_ok(token[frame.call.slot], frame.balance_before, frame.fee)
       THEN Abort
       ELSE /\ frame' = [frame EXCEPT !.pc = "route_fee"]
            /\ UNCHANGED <<vault, positions, token, now, last, hist, config>>

\* the fee goes to the treasury and the handler returns, storing its copy of
\* the vault account
FlashRouteFee ==
  /\ frame.pc = "route_fee"
  /\ LET c == frame.call
     IN /\ token' = route_fee(token, c.slot, c.fta, frame.fee)
        /\ vault' = frame.entry.vault
        /\ last' = [op |-> "flash_loan", user |-> c.borrower, arg |-> c.amount,
                    out |-> frame.fee,
                    aux |-> token[c.slot] - (frame.balance_before - c.amount),
                    slot |-> c.slot]
        /\ frame' = IdleFrame
        /\ UNCHANGED <<positions, now, hist, config>>

\* between flash loans: a deposit, a change of the flash-loan configuration
StepDeposit == frame.pc = "idle" /\ DepositToCustody
StepConfig == frame.pc = "idle" /\ UpdateFlashLoanConfig

\* the funder puts one reward token into the reward custody account, and
\* sets a rate or keeps the one in force
FundOneReward ==
  \E rate \in 0..MaxRate :
    /\ Commit(fund_rewards(Cur, Admin, "fw", "rvault", 1, rate),
              "fund_rewards", Admin, 1, "rvault")
    /\ UNCHANGED now

\* the funder puts one reward token into the reward custody account and sets
\* a rate of one unit per second, or the smallest rate whose rewards of one
\* second, scaled, leave the range of u128
FundAtRate ==
  \E rate \in {1, U128_RANGE \div REWARD_PRECISION + 1} :
    /\ Commit(fund_rewards(Cur, Admin, "fw", "rvault", 1, rate),
              "fund_rewards", Admin, 1, "rvault")
    /\ UNCHANGED now

\* the authority names the fee treasury, which enables flash loans
ConfigureFlashLoans ==
  /\ Commit(update_flash_loan_config(Cur, Admin, <<0>>, <<TreasuryKey>>, <<>>, <<>>),
            "update_flash_loan_config", Admin, 0, "-")
  /\ UNCHANGED now

\* a flash loan of one unit to the staker, repaid by a transfer or by a
\* deposit or withdraw on the lending vault
StakerFlashLoan ==
  \E c \in {x \in StepCalls : /\ x.amount = 1 /\ x.bta = Wallet[Staker]
                              /\ x.fta = "tacc" /\ x.slot = "custody"
                              /\ \A i \in 1..Len(x.script) : x.script[i].amt = 1} :
    /\ Commit(flash_loan(Cur, c.borrower, c.bta, c.fta, c.slot, c.cb, c.amount, c.script,
                         c.nested, now),
              "flash_loan", c.borrower, c.amount, c.slot)
    /\ UNCHANGED now

Next ==
  \/ Deposit
  \/ Withdraw
  \/ FundRewards
  \/ ClaimRewards
  \/ UpdateFlashLoanConfig
  \/ FlashLoan
  \/ FlashLoanNested
  \/ Donate
  \/ Tick

Spec == Init /\ [][Next]_vars

\* deposits and withdrawals, with third-party transfers into the custody account
NextShares == Deposit \/ Withdraw \/ Donate
SpecShares == Init /\ [][NextShares]_vars

\* deposits and withdrawals with a funded reward pool, without third-party
\* transfers
NextProgram == Deposit \/ Withdraw \/ FundRewards
SpecProgram == Init /\ [][NextProgram]_vars

\* flash loans against a vault funded by deposits into its custody account
NextFlash == DepositToCustody \/ UpdateFlashLoanConfig \/ FlashLoan
SpecFlash == Init /\ [][NextFlash]_vars

\* deposits, withdrawals and claims of one depositor against a funded reward
\* pool, next to another shareholder, while time passes
NextRewards ==
  \/ StakerDeposit
  \/ OtherDeposit
  \/ StakerWithdraw
  \/ StakerClaim
  \/ FundRewardVault
  \/ Tick
SpecRewards == Init /\ [][NextRewards]_vars

\* one depositor against a reward pool that is funded token by token
NextPool ==
  \/ StakerDeposit
  \/ StakerWithdraw
  \/ StakerClaim
  \/ FundOneReward
  \/ Tick
SpecPool == Init /\ [][NextPool]_vars

\* one depositor against a reward pool funded at small and at very large rates
NextOverflow ==
  \/ StakerDeposit
  \/ StakerWithdraw
  \/ StakerClaim
  \/ FundAtRate
  \/ Tick
SpecOverflow == Init /\ [][NextOverflow]_vars

\* one depositor against a reward pool funded token by token, with third-party
\* transfers into the custody account
NextFailures ==
  \/ StakerDeposit
  \/ StakerWithdraw
  \/ StakerClaim
  \/ FundOneReward
  \/ DonateOne
  \/ Tick
SpecFailures == Init /\ [][NextFailures]_vars

\* swaps against the pool of mock-amm
NextAmm == Swap \/ DonateToPool
SpecAmm == InitAmm /\ [][NextAmm]_vars

\* the router: its configuration, and swaps followed by deposits
NextRouter == InitializeRouterConfig \/ UpdateSwapPrograms \/ DepositSwapStake
SpecRouter == InitRouter /\ [][NextRouter]_vars

\* claims on stakes that stay as they are while time passes
NextStaked == StakedClaim \/ Tick
SpecStaked == InitStaked /\ [][NextStaked]_vars

\* configuration updates by the authority and by a depositor, among the other
\* instructions
NextConfig ==
  \/ UpdateFlashLoanConfig
  \/ StakerDeposit
  \/ StakerWithdraw
  \/ StakerClaim
  \/ FundOneReward
  \/ StakerFlashLoan
SpecConfig == Init /\ [][NextConfig]_vars

\* every instruction of the program, issued by one depositor and the
\* authority, while time passes
NextAccumulator ==
  \/ StakerDeposit
  \/ StakerWithdraw
  \/ StakerClaim
  \/ FundOneReward
  \/ ConfigureFlashLoans
  \/ StakerFlashLoan
  \/ Tick
SpecAccumulator == Init /\ [][NextAccumulator]_vars

\* the run of the accumulator, with the rewards emitted and paid on record
SpecEmission == InitMetered /\ [][NextAccumulator]_vars

\* flash loans with short callbacks
NextFlashShort == DepositToCustody \/ UpdateFlashLoanConfig \/ FlashLoanShort
SpecFlashShort == Init /\ [][NextFlashShort]_vars

\* flash loans whose callback is a deposit or a withdraw on the lending vault
NextNested == DepositToCustody \/ UpdateFlashLoanConfig \/ FlashLoanNested
SpecNested == Init /\ [][NextNested]_vars

\* flash loans executed statement by statement
NextFlashSteps ==
  \/ StepDeposit
  \/ StepConfig
  \/ FlashValidate
  \/ FlashSnapshot
  \/ FlashDisburse
  \/ FlashInvoke
  \/ FlashVerify
  \/ FlashRouteFee
SpecFlashSteps == Init /\ [][NextFlashSteps]_vars

(***************************************************************************)
(* Properties.                                                             *)
(***************************************************************************)
\* the statement-level execution and the handler agree on every completed loan
StepsAgree ==
  frame.pc = "route_fee" =>
    LET c == frame.call
        e == frame.entry
        r == flash_loan(e, c.borrower, c.bta, c.fta, c.slot, c.cb, c.amount, c.script,
                        c.nested, now)
        tok2 == IF frame.fee > 0 THEN token_transfer(token, c.slot, c.fta, frame.fee)
                ELSE token
    IN /\ r.err = "Ok"
       /\ r.st = [vault |-> e.vault, positions |-> positions, token |-> tok2]
       /\ r.out = frame.fee

\* every flash-loan call of the model
AllFlashCalls == ShortFlashCalls \cup NestedFlashCalls

FlashResult(c) ==
  flash_loan(Cur, c.borrower, c.bta, c.fta, c.slot, c.cb, c.amount, c.script,
             c.nested, now)

\* C1: every flash_loan that returns Ok found, when it re-read the custody
\* balance after the callback, at least the balance before disbursement plus
\* the fee floor(amount * flash_fee_bps / 10000), whatever transfers the
\* callback made; and it leaves the custody balance, after the fee went to the
\* treasury, no lower than before the loan.
C1_RepaymentCovered ==
  \A c \in FlashCalls :
    LET r == FlashResult(c)
        balance_before == token[c.slot]
        balance_after == (balance_before - c.amount) + r.aux
    IN r.err = "Ok" =>
         /\ r.out = (c.amount * vault.flash_fee_bps) \div 10000
         /\ balance_after >= balance_before + r.out
         /\ r.st.token["custody"] >= token["custody"]

\* a loan with a positive fee was repaid in several transfers and succeeded
C1_Witness ==
  /\ last.op = "flash_loan"
  /\ last.out > 0
  /\ last.aux >= last.arg + last.out
  /\ token["tacc"] > 0

\* C2: a flash_loan whose callback returns exactly amount + fee succeeds; one
\* whose callback returns one unit less fails with InsufficientRepayment and
\* leaves the balances, the vault and the positions as they were before the call.
C2_ExactRepayment ==
  \A c \in FlashCalls :
    LET r == FlashResult(c)
    IN r.err \in {"Ok", "InsufficientRepayment"} =>
         /\ r.aux = c.amount + r.out => r.err = "Ok"
         /\ r.aux = c.amount + r.out - 1 =>
              /\ r.err = "InsufficientRepayment"
              /\ r.st = Cur

\* an exactly repaid loan with a positive fee has succeeded, and in the state it
\* left a loan repaid one unit short is refused
C2_Witness ==
  /\ last.op = "flash_loan"
  /\ last.out > 0
  /\ last.aux = last.arg + last.out
  /\ \E c \in FlashCalls :
       LET r == FlashResult(c)
       IN /\ r.err = "InsufficientRepayment"
          /\ r.out > 0
          /\ r.aux = c.amount + r.out - 1

\* C3: a successful deposit moves exactly amount from the depositor's account
\* into the vault's custody account and prices the shares with the balance of
\* that custody account, whatever account the caller passes in the custody slot.
C3_DepositFundsCustody ==
  \A u \in Users : \A slot \in CustodySlots(u), amount \in 1..InitWallet :
    LET r == deposit(Cur, u, Wallet[u], slot, amount, now)
    IN r.err = "Ok" =>
         /\ r.st.token["custody"] = token["custody"] + amount
         /\ r.out = calculate_shares_for_deposit(amount, token["custody"],
                                                 vault.total_shares)

RECURSIVE SumShares(_, _)
SumShares(pos, S) ==
  IF S = {} THEN 0
  ELSE LET u == CHOOSE x \in S : TRUE
       IN (IF pos[u].open THEN pos[u].shares ELSE 0) + SumShares(pos, S \ {u})

\* C4: in every reachable state vault.total_shares is the sum of the shares of
\* all open positions.
C4_TotalSharesIsSum == vault.total_shares = SumShares(positions, Users)

\* a partial withdrawal has happened and both depositors still hold shares
C4_Witness ==
  /\ last.op = "withdraw"
  /\ \A u \in Users : positions[u].open /\ positions[u].shares > 0

\* C5: while only deposits have happened, no depositor's fraction of the shares
\* exceeds the fraction of the reserve that depositor contributed:
\* shares / total_shares <= contributed / reserve, where contributed is what
\* the depositor's deposits have put into the custody account.
C5_NoShareInflation ==
  hist.deposits_only =>
    \A u \in Users :
      positions[u].shares * token["custody"] <= hist.contributed[u] * vault.total_shares

\* C6: a successful deposit of amount followed at once by a withdrawal of the
\* shares it minted succeeds and returns at most amount.
C6_RoundTrip ==
  \A u \in Users : \A amount \in 1..InitWallet :
    LET r1 == deposit(Cur, u, Wallet[u], "custody", amount, now)
        r2 == withdraw(r1.st, u, Wallet[u], "custody", r1.out, now)
    IN r1.err = "Ok" => (r2.err = "Ok" /\ r2.out <= amount)

\* C7: a deposit mints amount shares when total_shares is 0, whatever the reserve
\* holds, and floor(amount * total_shares / reserve_before) otherwise; when that
\* number is 0 the deposit is rejected and changes nothing.  (With shares
\* outstanding and an empty reserve the quotient is undefined; the formula
\* then expects the 1:1 mint the code performs.)
C7_SharesMinted ==
  \A u \in Users : \A amount \in 1..InitWallet :
    LET r == deposit(Cur, u, Wallet[u], "custody", amount, now)
        reserve_before == token["custody"]
        expected == IF vault.total_shares = 0 THEN amount
                    ELSE IF reserve_before = 0 THEN amount
                    ELSE (amount * vault.total_shares) \div reserve_before
    IN token[Wallet[u]] >= amount =>
         IF expected > 0
           THEN r.err = "Ok" /\ r.out = expected
           ELSE r.err = "InvalidAmount" /\ r.st = Cur

\* C8: a successful withdraw pays floor(shares * reserve_before / total_shares)
\* tokens out of the reserve, never more than the reserve holds; a computed
\* amount of 0 is an error; and the positions together are never owed more than
\* the reserve.
C8_TokensPaid ==
  /\ \A u \in Users :
       \A slot \in CustodySlots(u), dest \in {Wallet[u], RewardWallet[u]},
          shares \in 1..MaxShares :
         LET r == withdraw(Cur, u, dest, slot, shares, now)
             reserve_before == token["custody"]
         IN r.err = "Ok" =>
              /\ r.out = (shares * reserve_before) \div vault.total_shares
              /\ r.out > 0
              /\ r.out <= reserve_before
              /\ r.st.token["custody"] = reserve_before - r.out
  /\ vault.total_shares > 0 =>
       SumShares([u \in Users |->
                    [open |-> positions[u].open,
                     shares |-> (positions[u].shares * token["custody"])
                                  \div vault.total_shares]], Users)
         <= token["custody"]

\* C9: withdraw is rejected with InvalidAmount when shares is 0 and with
\* InsufficientShares when the position holds fewer shares than requested, and
\* then nothing changes; a withdraw that succeeds never burns more shares than
\* the position holds.
C9_WithdrawRejected ==
  \A u \in Users :
    \A slot \in CustodySlots(u), dest \in {Wallet[u], RewardWallet[u]},
       shares \in 0..(MaxShares + 1) :
      LET r == withdraw(Cur, u, dest, slot, shares, now)
      IN /\ (positions[u].open /\ shares = 0) =>
              (r.err = "InvalidAmount" /\ r.st = Cur)
         /\ (positions[u].open /\ shares > positions[u].shares) =>
              (r.err = "InsufficientShares" /\ r.st = Cur)
         /\ r.err = "Ok" =>
              /\ shares <= positions[u].shares
              /\ r.st.positions[u].shares = positions[u].shares - shares

\* after a partial withdrawal the position still holds shares, and a request
\* for one share more than it holds is refused
C9_Witness ==
  /\ last.op = "withdraw"
  /\ \E u \in Users :
       /\ last.user = u
       /\ positions[u].open
       /\ positions[u].shares > 0
       /\ withdraw(Cur, u, Wallet[u], "custody", positions[u].shares + 1, now).err
            = "InsufficientShares"
       /\ withdraw(Cur, u, Wallet[u], "custody", 0, now).err = "InvalidAmount"

\* C10: without third-party transfers into the custody account, total_shares is
\* 0 exactly when the custody balance is 0.
C10_SharesZeroIffReserveZero ==
  (vault.total_shares = 0) <=> (token["custody"] = 0)

\* the order of the steps of one flash_loan execution
StepOrder ==
  {<<"idle", "snapshot">>, <<"snapshot", "disburse">>, <<"disburse", "invoke">>,
   <<"invoke", "verify">>, <<"verify", "route_fee">>, <<"route_fee", "idle">>}

\* C11: a flash_loan execution takes its steps in the order validate, snapshot,
\* disburse, invoke callback, verify repayment, route fee, none of them twice (a
\* failing step ends the execution).  Until the disbursement no token has
\* moved; once it has happened every validation has passed on the state the
\* call started from (amount > 0, treasury configured, the borrower's and the
\* treasury's accounts hold the vault's asset and belong to the borrower and to
\* the treasury, the callback passes the allow-list, balance_before >= amount)
\* and balance_before is the lending account's balance at that state; the
\* callback has not run before the disbursement; and the treasury's account is
\* credited only by the last step, after the balance read back covers
\* balance_before + fee.
C11_StepOrder ==
  /\ [][frame'.pc # frame.pc =>
          (frame'.pc = "idle" \/ <<frame.pc, frame'.pc>> \in StepOrder)]_vars
  /\ [](LET c == frame.call
            e == frame.entry
        IN /\ frame.pc \in {"snapshot", "disburse"} => Cur = e
           /\ frame.pc \in {"invoke", "verify", "route_fee"} =>
                /\ c.amount > 0
                /\ e.vault.fee_treasury # DefaultPubkey
                /\ Mint[c.bta] = "asset" /\ Owner[c.bta] = c.borrower
                /\ Mint[c.fta] = "asset" /\ Owner[c.fta] = e.vault.fee_treasury
                /\ (e.vault.callback_allowlist_enabled =>
                      \E i \in 1..Len(e.vault.callback_allowlist) :
                        e.vault.callback_allowlist[i] = c.cb)
                /\ frame.balance_before = e.token[c.slot]
                /\ frame.balance_before >= c.amount
           /\ frame.pc = "invoke" =>
                /\ positions = e.positions
                /\ token = token_transfer(e.token, c.slot, c.bta, c.amount)
           /\ frame.pc # "idle" => token["tacc"] = e.token["tacc"]
           /\ frame.pc = "route_fee" =>
                token[c.slot] >= frame.balance_before + frame.fee)

\* a loan with a positive fee has passed the repayment check and its fee is
\* about to go to the treasury
C11_Witness ==
  /\ frame.pc = "route_fee"
  /\ frame.fee > 0
  /\ token[frame.call.slot] = frame.balance_before + frame.fee

\* C12: while vault.fee_treasury is the zero identity (as initialize_vault
\* leaves it, or as a later update_flash_loan_config sets it again) every
\* flash_loan call fails and changes nothing, with FlashLoanNotConfigured
\* when its amount is positive; a call with amount 0 is rejected with
\* InvalidFlashLoanAmount whatever the configuration.
C12_UnconfiguredRejects ==
  \A c \in AllFlashCalls :
    LET r == FlashResult(c)
    IN /\ vault.fee_treasury = DefaultPubkey =>
            /\ r.err # "Ok"
            /\ r.st = Cur
            /\ c.amount > 0 => r.err = "FlashLoanNotConfigured"
       /\ c.amount = 0 => (r.err = "InvalidFlashLoanAmount" /\ r.st = Cur)

\* the treasury was configured, a loan paid a fee to it, and the treasury has
\* been set back to the zero identity while the vault holds assets
C12_Witness ==
  /\ last.op = "update_flash_loan_config"
  /\ vault.fee_treasury = DefaultPubkey
  /\ token["tacc"] > 0
  /\ token["custody"] > 0

\* C13: while callback_allowlist_enabled is true, a flash_loan whose callback
\* program is not in callback_allowlist fails and changes nothing, with
\* CallbackNotAllowlisted when the checks made before the allow-list test pass
\* (so before the balance is read and anything is disbursed or invoked); while
\* it is false, the result of a call does not depend on the contents of the
\* allow-list.
C13_AllowlistEnforced ==
  \A c \in AllFlashCalls :
    LET r == FlashResult(c)
        listed == \E i \in 1..Len(vault.callback_allowlist) :
                    vault.callback_allowlist[i] = c.cb
        earlier_checks_pass ==
          /\ c.amount > 0
          /\ vault.fee_treasury # DefaultPubkey
          /\ Mint[c.bta] = vault.token_mint /\ Owner[c.bta] = c.borrower
          /\ Mint[c.fta] = vault.token_mint /\ Owner[c.fta] = vault.fee_treasury
    IN /\ (vault.callback_allowlist_enabled /\ ~listed) =>
            /\ r.err # "Ok"
            /\ r.st = Cur
            /\ earlier_checks_pass => r.err = "CallbackNotAllowlisted"
       /\ ~vault.callback_allowlist_enabled =>
            \A l \in {<<>>, <<"cb1">>, <<"cb2">>, <<VaultProgram>>} :
              LET q == flash_loan([Cur EXCEPT !.vault.callback_allowlist = l],
                                  c.borrower, c.bta, c.fta, c.slot, c.cb, c.amount,
                                  c.script, c.nested, now)
              IN /\ q.err = r.err
                 /\ q.out = r.out
                 /\ q.st.token = r.st.token
                 /\ q.st.positions = r.st.positions

\* the allow-list is enabled and holds cb1: a loan has succeeded, and the same
\* vault refuses a loan whose callback program is cb2
C13_Witness ==
  /\ last.op = "flash_loan"
  /\ vault.callback_allowlist_enabled
  /\ vault.callback_allowlist = <<"cb1">>
  /\ \E c \in FlashCalls :
       /\ c.cb = "cb2"
       /\ FlashResult(c).err = "CallbackNotAllowlisted"

\* C14: a successful flash_loan(amount) charges fee = floor(amount *
\* flash_fee_bps / 10000), at most amount; the treasury's account is credited
\* exactly the fee and the lending account debited by it (nothing moves to the
\* treasury when the fee is 0).
C14_FeeRouted ==
  \A c \in AllFlashCalls :
    LET r == FlashResult(c)
        fee == (c.amount * vault.flash_fee_bps) \div 10000
    IN r.err = "Ok" =>
         /\ r.out = fee
         /\ fee <= c.amount
         /\ r.st.token[c.fta] = token[c.fta] + fee
         /\ r.st.token[c.slot] = ((token[c.slot] - c.amount) + r.aux) - fee

\* a loan has paid a positive fee to the treasury
C14_Witness ==
  /\ last.op = "flash_loan"
  /\ last.out > 0
  /\ token["tacc"] >= last.out

\* C15: a flash_loan call, successful or not, leaves total_shares, every
\* position (shares and reward_debt), reward_rate, acc_reward_per_share,
\* last_update_ts and the reward custody balance as they were.
C15_FlashLoanFrame ==
  \A c \in AllFlashCalls :
    LET r == FlashResult(c)
    IN /\ r.st.vault.total_shares = vault.total_shares
       /\ r.st.positions = positions
       /\ r.st.vault.reward_rate = vault.reward_rate
       /\ r.st.vault.acc_reward_per_share = vault.acc_reward_per_share
       /\ r.st.vault.last_update_ts = vault.last_update_ts
       /\ r.st.token["rvault"] = token["rvault"]

\* acc_reward_per_share caught up to the clock: the stored value plus
\* floor(reward_rate * elapsed * REWARD_PRECISION / total_shares) when time has
\* passed and shares exist
AccNow ==
  LET elapsed == now - vault.last_update_ts
  IN IF elapsed > 0 /\ vault.total_shares > 0
       THEN vault.acc_reward_per_share
              + (vault.reward_rate * elapsed * REWARD_PRECISION) \div vault.total_shares
       ELSE vault.acc_reward_per_share

\* C16: right after a successful deposit the depositor's reward_debt is their
\* shares after the deposit times acc_reward_per_share caught up to the time of
\* the deposit, and a claim_rewards at that same time succeeds and pays nothing.
C16_DepositBaseline ==
  \A u \in Users : \A slot \in CustodySlots(u), amount \in 1..InitWallet :
    LET r == deposit(Cur, u, Wallet[u], slot, amount, now)
        p == r.st.positions[u]
        c == claim_rewards(r.st, u, RewardWallet[u], "rvault", now)
    IN r.err = "Ok" =>
         /\ p.shares = positions[u].shares + r.out
         /\ r.st.vault.acc_reward_per_share = AccNow
         /\ p.reward_debt = p.shares * AccNow
         /\ c.err = "Ok"
         /\ c.out = 0
         /\ c.st.token = r.st.token

\* the depositor has added to a position that already held shares, after
\* rewards had accrued
C16_Witness ==
  /\ last.op = "deposit"
  /\ last.user = Staker
  /\ positions[Staker].shares > last.out
  /\ vault.acc_reward_per_share > 0
  /\ positions[Staker].reward_debt = positions[Staker].shares * vault.acc_reward_per_share

\* C17: after a successful withdraw, with pending = max(0, shares_before *
\* acc_reward_per_share - reward_debt_before) at the caught-up accumulator: when
\* shares remain, reward_debt = remaining * acc_reward_per_share; when none
\* remain and pending > 0, the position stays open with reward_debt = pending;
\* when none remain and pending = 0, the position is reclaimed.
C17_WithdrawBaseline ==
  \A u \in Users : \A slot \in CustodySlots(u), shares \in 1..MaxShares :
    LET r == withdraw(Cur, u, Wallet[u], slot, shares, now)
        p == r.st.positions[u]
        owed == positions[u].shares * AccNow
        pending == IF owed >= positions[u].reward_debt
                     THEN owed - positions[u].reward_debt ELSE 0
        remaining == positions[u].shares - shares
    IN r.err = "Ok" =>
         /\ remaining > 0 =>
              (p.open /\ p.shares = remaining /\ p.reward_debt = remaining * AccNow)
         /\ (remaining = 0 /\ pending > 0) =>
              (p.open /\ p.shares = 0 /\ p.reward_debt = pending)
         /\ (remaining = 0 /\ pending = 0) => ~p.open

\* a withdrawal has taken a position to zero shares and left its pending
\* reward in reward_debt
C17_Witness ==
  /\ last.op = "withdraw"
  /\ positions[last.user].open
  /\ positions[last.user].shares = 0
  /\ positions[last.user].reward_debt > 0

\* C18: a position at zero shares that is still open holds the pending reward
\* recorded by the withdrawal; the owner's next claim_rewards, at any later time
\* and with the reward custody account funded for it, pays exactly that amount
\* and reclaims the position, for every positive recorded value.
C18_ClaimAfterExit ==
  \A u \in Users, ts \in now..MaxTime :
    LET p == positions[u]
        c == claim_rewards(Cur, u, RewardWallet[u], "rvault", ts)
        owed == p.reward_debt \div REWARD_PRECISION
    IN (p.open /\ p.shares = 0 /\ p.reward_debt > 0 /\ token["rvault"] >= owed) =>
         /\ c.err = "Ok"
         /\ c.out = owed
         /\ c.st.token[RewardWallet[u]] = token[RewardWallet[u]] + owed
         /\ ~c.st.positions[u].open

\* the unclaimed reward of position u at the clock, in scaled units
PendingScaled(u) ==
  IF positions[u].shares = 0 THEN positions[u].reward_debt
  ELSE LET owed == positions[u].shares * AccNow
       IN IF owed >= positions[u].reward_debt THEN owed - positions[u].reward_debt ELSE 0

\* C19: a position is reclaimed only by a withdraw of its owner that burns all
\* its shares when no reward is pending for it, or by a claim_rewards of its
\* owner made at zero shares that pays out what was pending.
C19_ReclaimOnlyWhenSettled ==
  [][\A u \in Users :
       (positions[u].open /\ ~positions'[u].open) =>
         \/ /\ last'.op = "withdraw"
            /\ last'.user = u
            /\ last'.arg = positions[u].shares
            /\ PendingScaled(u) = 0
         \/ /\ last'.op = "claim_rewards"
            /\ last'.user = u
            /\ positions[u].shares = 0
            /\ last'.out = PendingScaled(u) \div REWARD_PRECISION
            /\ token'[RewardWallet[u]] = token[RewardWallet[u]] + last'.out]_vars

\* a position at zero shares has been paid its pending reward and reclaimed
C19_Witness ==
  /\ last.op = "claim_rewards"
  /\ last.out > 0
  /\ ~positions[last.user].open
  /\ token[RewardWallet[last.user]] >= last.out

\* C20: a catch-up repeated at the same timestamp changes nothing, and a
\* catch-up with no time elapsed or with total_shares = 0 changes only
\* last_update_ts.
C20_CatchUpIdempotent ==
  \A ts \in now..MaxTime :
    LET a == update_rewards(vault, ts).v
    IN /\ update_rewards(a, ts).v = a
       /\ (ts = vault.last_update_ts \/ vault.total_shares = 0) =>
            a = [vault EXCEPT !.last_update_ts = ts]

\* rewards have accrued before, and time has passed since the last catch-up
\* while shares are staked at a positive rate
C20_Witness ==
  /\ vault.acc_reward_per_share > 0
  /\ vault.reward_rate > 0
  /\ vault.total_shares > 0
  /\ now > vault.last_update_ts

\* C21: a catch-up with elapsed > 0 and total_shares > 0 succeeds, adds
\* floor(reward_rate * elapsed * REWARD_PRECISION / total_shares) to
\* acc_reward_per_share and sets last_update_ts to the time it is made at; and
\* every successful deposit, withdraw and claim_rewards leaves last_update_ts
\* at the time of the operation.
C21_CatchUpAccrues ==
  /\ \A ts \in now..MaxTime :
       LET a == update_rewards(vault, ts)
           elapsed == ts - vault.last_update_ts
       IN (elapsed > 0 /\ vault.total_shares > 0) =>
            /\ a.err = "Ok"
            /\ ~a.wrapped
            /\ a.v.acc_reward_per_share =
                 vault.acc_reward_per_share
                   + (vault.reward_rate * elapsed * REWARD_PRECISION) \div vault.total_shares
            /\ a.v.last_update_ts = ts
  /\ \A u \in Users :
       /\ \A amount \in 1..InitWallet :
            LET r == deposit(Cur, u, Wallet[u], "custody", amount, now)
            IN r.err = "Ok" => r.st.vault.last_update_ts = now
       /\ \A shares \in 1..MaxShares :
            LET r == withdraw(Cur, u, Wallet[u], "custody", shares, now)
            IN r.err = "Ok" => r.st.vault.last_update_ts = now
       /\ LET r == claim_rewards(Cur, u, RewardWallet[u], "rvault", now)
          IN r.err = "Ok" => r.st.vault.last_update_ts = now

\* a withdrawal made after time had passed at a positive rate has caught the
\* accumulator up to the clock
C21_Witness ==
  /\ last.op = "withdraw"
  /\ now > 0
  /\ vault.last_update_ts = now
  /\ vault.reward_rate > 0
  /\ vault.total_shares > 0
  /\ vault.acc_reward_per_share > 0

\* C22: acc_reward_per_share never decreases, and a step that raises it is a
\* successful deposit, withdraw or claim_rewards (fund_rewards,
\* update_flash_loan_config, flash_loan and the passing of time leave it as it
\* is).
C22_AccumulatorMonotone ==
  [][/\ vault'.acc_reward_per_share >= vault.acc_reward_per_share
     /\ vault'.acc_reward_per_share > vault.acc_reward_per_share =>
          last'.op \in {"deposit", "withdraw", "claim_rewards"}]_vars

\* the accumulator has been raised, and since then rewards were funded, a
\* flash loan was made and the clock has advanced
C22_Witness ==
  /\ vault.acc_reward_per_share > 0
  /\ last.op = "flash_loan"
  /\ now > vault.last_update_ts
  /\ token["rvault"] > 0

\* C23: a catch-up made at a time before last_update_ts, with shares staked at
\* a positive rate, treats the elapsed time as 0: it succeeds, no arithmetic
\* leaves its range, and acc_reward_per_share stays as it is; so a
\* claim_rewards of an open position made at such a time succeeds.
C23_BackwardClock ==
  \A ts \in 0..MaxTime :
    (ts < vault.last_update_ts /\ vault.total_shares > 0 /\ vault.reward_rate > 0) =>
      LET a == update_rewards(vault, ts)
      IN /\ a.err = "Ok"
         /\ ~a.wrapped
         /\ a.v.acc_reward_per_share = vault.acc_reward_per_share
         /\ \A u \in Users :
              positions[u].open =>
                claim_rewards(Cur, u, RewardWallet[u], "rvault", ts).err = "Ok"

\* acc_reward_per_share caught up to time ts
AccAt(ts) ==
  LET elapsed == ts - vault.last_update_ts
  IN IF elapsed > 0 /\ vault.total_shares > 0
       THEN vault.acc_reward_per_share
              + (vault.reward_rate * elapsed * REWARD_PRECISION) \div vault.total_shares
       ELSE vault.acc_reward_per_share

\* C24: claim_rewards pays floor(pending / REWARD_PRECISION), where after the
\* catch-up pending = max(0, shares * acc_reward_per_share - reward_debt) for a
\* position with shares and pending = reward_debt for one without.  When that
\* amount is 0 the claim succeeds, moves no token and leaves every position as
\* it is; when it is positive (and the reward custody account holds it) the
\* claim pays it, sets reward_debt to shares * acc_reward_per_share or, at zero
\* shares, reclaims the position, and a second claim at the same time pays
\* nothing.
C24_ClaimPays ==
  \A u \in Users, ts \in now..MaxTime :
    LET p == positions[u]
        owed == p.shares * AccAt(ts)
        pending == IF p.shares = 0 THEN p.reward_debt
                   ELSE IF owed >= p.reward_debt THEN owed - p.reward_debt ELSE 0
        amount == pending \div REWARD_PRECISION
        c == claim_rewards(Cur, u, RewardWallet[u], "rvault", ts)
        again == claim_rewards(c.st, u, RewardWallet[u], "rvault", ts)
    IN p.open =>
         /\ amount = 0 =>
              /\ c.err = "Ok"
              /\ c.out = 0
              /\ c.st.token = token
              /\ c.st.positions = positions
         /\ (amount > 0 /\ token["rvault"] >= amount) =>
              /\ c.err = "Ok"
              /\ c.out = amount
              /\ c.st.token = token_transfer(token, "rvault", RewardWallet[u], amount)
              /\ c.st.positions =
                   [positions EXCEPT ![u] =
                      IF p.shares > 0 THEN [p EXCEPT !.reward_debt = p.shares * AccAt(ts)]
                      ELSE ClosedPosition]
              /\ again.out = 0
              /\ again.st.token = c.st.token

\* a claim has paid a position that holds shares and reset its baseline
C24_Witness ==
  /\ last.op = "claim_rewards"
  /\ last.out > 0
  /\ positions[last.user].open
  /\ positions[last.user].shares > 0
  /\ positions[last.user].reward_debt =
       positions[last.user].shares * vault.acc_reward_per_share
  /\ token[RewardWallet[last.user]] >= last.out

\* C25: when claim_rewards owes a positive amount and the reward custody
\* account holds less, the claim fails with InsufficientRewardBalance and
\* changes nothing: no part is paid, the position keeps its shares and
\* reward_debt, and once the account is funded with the missing tokens the
\* claim pays the whole amount.
C25_UnderfundedClaim ==
  \A u \in Users, ts \in now..MaxTime :
    LET p == positions[u]
        owed == p.shares * AccAt(ts)
        pending == IF p.shares = 0 THEN p.reward_debt
                   ELSE IF owed >= p.reward_debt THEN owed - p.reward_debt ELSE 0
        amount == pending \div REWARD_PRECISION
        c == claim_rewards(Cur, u, RewardWallet[u], "rvault", ts)
        funded == fund_rewards(Cur, Admin, "fw", "rvault", amount - token["rvault"], 0)
        paid == claim_rewards(funded.st, u, RewardWallet[u], "rvault", ts)
    IN (p.open /\ amount > 0 /\ token["rvault"] < amount) =>
         /\ c.err = "InsufficientRewardBalance"
         /\ c.st = Cur
         /\ funded.err = "Ok" =>
              /\ paid.err = "Ok"
              /\ paid.out = amount
              /\ paid.st.token[RewardWallet[u]] = token[RewardWallet[u]] + amount

\* the staker is owed more than the partly funded reward custody account
\* holds, and the funder can supply the rest
C25_Witness ==
  /\ token["rvault"] > 0
  /\ claim_rewards(Cur, Staker, RewardWallet[Staker], "rvault", now).err
       = "InsufficientRewardBalance"
  /\ token["fw"] > 0
  /\ LET f == fund_rewards(Cur, Admin, "fw", "rvault", token["fw"], 0)
     IN claim_rewards(f.st, Staker, RewardWallet[Staker], "rvault", now).out
          > token["rvault"]

\* C26: a single depositor holds all the shares from the last catch-up, where
\* nothing was pending for it, until it claims t > 0 seconds later at rate r:
\* the claim pays r * t or one unit less, whatever the share count (1000 per
\* second on 100 shares pays exactly 100000 after 100 seconds).
C26_RewardConservation ==
  \A ts \in ClaimTimes :
    LET p == positions[Staker]
        r == vault.reward_rate
        t == ts - vault.last_update_ts
        c == claim_rewards(Cur, Staker, RewardWallet[Staker], "rvault", ts)
    IN (/\ p.open /\ p.shares > 0 /\ p.shares = vault.total_shares
        /\ p.reward_debt = p.shares * vault.acc_reward_per_share
        /\ r > 0 /\ t > 0 /\ token["rvault"] >= r * t) =>
         /\ c.err = "Ok"
         /\ c.out <= r * t
         /\ c.out >= r * t - 1
         /\ (p.shares = 100 /\ r = 1000 /\ t = 100) => c.out = 100000

\* C27: two depositors hold s1 and s2 shares from the last catch-up, where
\* nothing was pending for either, until they claim t > 0 seconds later at
\* rate r: each claim pays floor(s_i * floor(r * t * REWARD_PRECISION / (s1 +
\* s2)) / REWARD_PRECISION), whichever of them claims first (400 per second
\* on 100 and 300 shares pays exactly 1000 and 3000 after 10 seconds).
C27_ProRata ==
  \A ts \in ClaimTimes :
    LET p1 == positions["u1"]
        p2 == positions["u2"]
        r == vault.reward_rate
        t == ts - vault.last_update_ts
        S == p1.shares + p2.shares
        per_share == (r * t * REWARD_PRECISION) \div S
        pay1 == (p1.shares * per_share) \div REWARD_PRECISION
        pay2 == (p2.shares * per_share) \div REWARD_PRECISION
        c1 == claim_rewards(Cur, "u1", "r1", "rvault", ts)
        c2 == claim_rewards(Cur, "u2", "r2", "rvault", ts)
        c1_second == claim_rewards(c2.st, "u1", "r1", "rvault", ts)
        c2_second == claim_rewards(c1.st, "u2", "r2", "rvault", ts)
    IN (/\ p1.open /\ p1.shares > 0 /\ p2.open /\ p2.shares > 0
        /\ vault.total_shares = S
        /\ p1.reward_debt = p1.shares * vault.acc_reward_per_share
        /\ p2.reward_debt = p2.shares * vault.acc_reward_per_share
        /\ r > 0 /\ t > 0 /\ token["rvault"] >= r * t) =>
         /\ c1.err = "Ok" /\ c1.out = pay1
         /\ c2.err = "Ok" /\ c2.out = pay2
         /\ c1_second.err = "Ok" /\ c1_second.out = pay1
         /\ c2_second.err = "Ok" /\ c2_second.out = pay2
         /\ c1_second.st = c2_second.st
         /\ (p1.shares = 100 /\ p2.shares = 300 /\ r = 400 /\ t = 10) =>
              (c1.out = 1000 /\ c2.out = 3000)

\* the depositors of 100 and 300 shares have both claimed after the same
\* interval, and were paid one to three
C27_Witness ==
  /\ last.op = "claim_rewards"
  /\ positions["u1"].shares = 100
  /\ positions["u2"].shares = 300
  /\ token["r1"] > 0
  /\ token["r2"] = 3 * token["r1"]
  /\ vault.last_update_ts = now

\* C28: a successful fund_rewards(amount, reward_rate) credits the reward
\* custody account with exactly amount, taken from the funder's account, sets
\* reward_rate to the rate given when that is positive and keeps it when it is
\* 0, and changes nothing else: acc_reward_per_share, last_update_ts,
\* total_shares, the configuration, the reserve custody balance and every
\* position stay as they are.
C28_FundRewardsFrame ==
  \A amount \in 0..InitFunder, reward_rate \in 0..MaxRate,
     reward_vault \in {"rvault", "custody"}, funder_token_account \in {"fw", "w1"} :
    LET r == fund_rewards(Cur, Admin, funder_token_account, reward_vault, amount,
                          reward_rate)
    IN IF r.err = "Ok"
         THEN /\ r.st.token["rvault"] = token["rvault"] + amount
              /\ r.st.token = token_transfer(token, funder_token_account, "rvault", amount)
              /\ r.st.token["custody"] = token["custody"]
              /\ r.st.vault.reward_rate =
                   IF reward_rate > 0 THEN reward_rate ELSE vault.reward_rate
              /\ [r.st.vault EXCEPT !.reward_rate = vault.reward_rate] = vault
              /\ r.st.positions = positions
         ELSE r.st = Cur

\* rewards were funded while shares were staked, a rate was in force and the
\* accumulator had advanced
C28_Witness ==
  /\ last.op = "fund_rewards"
  /\ vault.reward_rate > 0
  /\ vault.acc_reward_per_share > 0
  /\ vault.total_shares > 0
  /\ now > vault.last_update_ts
  /\ token["rvault"] > 0

\* the flash-loan configuration of a vault account
FlashConfig(v) ==
  <<v.flash_fee_bps, v.fee_treasury, v.callback_allowlist_enabled, v.callback_allowlist>>

\* C29: flash_fee_bps, fee_treasury, callback_allowlist_enabled and
\* callback_allowlist change only in a step that is a successful
\* update_flash_loan_config signed by vault.authority; a call signed by anybody
\* else fails and changes nothing; and a successful call sets the fields it
\* is given and keeps every field passed as absent.
C29_ConfigByAuthority ==
  /\ [][FlashConfig(vault') # FlashConfig(vault) =>
          /\ last'.op = "update_flash_loan_config"
          /\ last'.user = vault.authority]_vars
  /\ [](\A signer \in {Admin, "u1", "u2"}, i \in 1..Len(ConfigCalls) :
          LET c == ConfigCalls[i]
              r == update_flash_loan_config(Cur, signer, c[1], c[2], c[3], c[4])
              v == r.st.vault
          IN /\ signer # vault.authority => (r.err = "InvalidVault" /\ r.st = Cur)
             /\ r.err = "Ok" =>
                  /\ v.flash_fee_bps =
                       IF c[1] = <<>> THEN vault.flash_fee_bps ELSE c[1][1]
                  /\ v.fee_treasury =
                       IF c[2] = <<>> THEN vault.fee_treasury ELSE c[2][1]
                  /\ v.callback_allowlist_enabled =
                       IF c[3] = <<>> THEN vault.callback_allowlist_enabled ELSE c[3][1]
                  /\ v.callback_allowlist =
                       IF c[4] = <<>> THEN vault.callback_allowlist ELSE c[4][1]
                  /\ r.st.positions = positions
                  /\ r.st.token = token)

\* the authority set the fee and the treasury, and a later update that passed
\* them as absent enabled the allow-list and kept them
C29_Witness ==
  /\ last.op = "update_flash_loan_config"
  /\ last.user = Admin
  /\ vault.flash_fee_bps = 5000
  /\ vault.fee_treasury = TreasuryKey
  /\ vault.callback_allowlist_enabled
  /\ vault.callback_allowlist = <<"cb1">>

\* C30: in every reachable state flash_fee_bps <= 10000 and the allow-list
\* holds at most 10 entries; an update_flash_loan_config by the authority with
\* a fee above 10000 or an allow-list of more than 10 entries is rejected, and
\* a rejected update changes nothing, whatever valid fields it carried.
C30_ConfigBounds ==
  /\ vault.flash_fee_bps <= 10000
  /\ Len(vault.callback_allowlist) <= 10
  /\ \A i \in 1..Len(ConfigCalls) :
       LET c == ConfigCalls[i]
           r == update_flash_loan_config(Cur, vault.authority, c[1], c[2], c[3], c[4])
       IN /\ (c[1] # <<>> /\ c[1][1] > 10000) => r.err = "InvalidAmount"
          /\ (c[4] # <<>> /\ Len(c[4][1]) > 10) => r.err # "Ok"
          /\ r.err # "Ok" => r.st = Cur

\* the configuration holds a fee and an allow-list set by the authority, and
\* updates with a fee of 10001 or with 11 programs next to a valid fee are
\* refused
C30_Witness ==
  /\ last.op = "update_flash_loan_config"
  /\ vault.flash_fee_bps > 0
  /\ Len(vault.callback_allowlist) > 0
  /\ update_flash_loan_config(Cur, Admin, <<10001>>, <<DefaultPubkey>>, <<>>, <<>>).err
       = "InvalidAmount"
  /\ update_flash_loan_config(Cur, Admin, <<0>>, <<>>, <<>>,
        << [i \in 1..(MAX_CALLBACK_PROGRAMS + 1) |-> "cb2"] >>).err = "MathOverflow"

Redeemable(st, u) ==
  IF st.vault.total_shares = 0 THEN 0
  ELSE (st.positions[u].shares * st.token["custody"]) \div st.vault.total_shares

\* what withdraw pays a holder who redeems their shares at time ts, 0 when it
\* refuses
CanRedeem(st, u, ts) ==
  LET w == withdraw(st, u, Wallet[u], "custody", st.positions[u].shares, ts)
  IN IF w.err = "Ok" THEN w.out ELSE 0

Unclaimed(st, u, ts) ==
  LET pos == st.positions[u]
      caught == update_rewards(st.vault, ts)
      total_owed_scaled == pos.shares * caught.v.acc_reward_per_share
      pending_scaled == IF pos.shares = 0 THEN pos.reward_debt
                        ELSE saturating_sub(total_owed_scaled, pos.reward_debt)
  IN IF pos.open /\ caught.err = "Ok" THEN pending_units(pending_scaled) ELSE 0

\* C33: a successful deposit or withdraw of a depositor leaves the reward
\* claim_rewards would pay them at that instant no lower than it was: adding
\* to a position, burning part of it, and depositing into a position at zero
\* shares that holds a pending reward all keep the reward earned so far.
C33_OwnOpsKeepReward ==
  \A u \in Users, ts \in now..MaxTime :
    /\ \A amount \in 1..InitWallet :
         LET d == deposit(Cur, u, Wallet[u], "custody", amount, ts)
         IN d.err = "Ok" => Unclaimed(d.st, u, ts) >= Unclaimed(Cur, u, ts)
    /\ \A shares \in 1..MaxShares :
         LET w == withdraw(Cur, u, Wallet[u], "custody", shares, ts)
         IN w.err = "Ok" => Unclaimed(w.st, u, ts) >= Unclaimed(Cur, u, ts)

\* C34: from one state to the next, both with shares outstanding, the reserve
\* backing each share does not decrease (reserve' * total_shares >= reserve *
\* total_shares'), and the reserve holds at least one token per share.
C34_SharePriceMonotone ==
  [][(vault.total_shares > 0 /\ vault'.total_shares > 0) =>
       /\ token'["custody"] * vault.total_shares >= token["custody"] * vault'.total_shares
       /\ token'["custody"] >= vault'.total_shares]_vars

\* C35: whenever no shares are outstanding, whatever the custody account
\* holds, every deposit of a positive amount that the depositor's wallet covers
\* succeeds and mints shares.
C35_DepositAlwaysPossible ==
  vault.total_shares = 0 =>
    \A u \in Users : \A amount \in 1..token[Wallet[u]] :
      LET d == deposit(Cur, u, Wallet[u], "custody", amount, now)
      IN d.err = "Ok" /\ d.out > 0

\* C36: a fund_rewards call that changes reward_rate at the current time leaves
\* the reward of the time since the last catch-up at the old rate: at the next
\* catch-up, acc_reward_per_share is what it would be had the accumulator been
\* caught up just before the rate changed.
C36_RateInForce ==
  \A rate \in 1..(MaxRate + 1), ts \in now..MaxTime :
    LET f == fund_rewards(Cur, Admin, "fw", "rvault", 1, rate)
        settled == update_rewards(vault, now)
        expected == update_rewards(set_reward_rate(settled.v, rate), ts)
        actual == update_rewards(f.st.vault, ts)
    IN (/\ rate # vault.reward_rate
        /\ f.err = "Ok"
        /\ settled.err = "Ok"
        /\ expected.err = "Ok"
        /\ actual.err = "Ok") =>
         actual.v.acc_reward_per_share = expected.v.acc_reward_per_share

\* C37: the reward units claim_rewards has paid out so far never exceed the
\* units emitted so far, the sum of reward_rate * elapsed over the catch-ups
\* made while shares existed.
C37_PaidWithinEmitted == hist.paid <= hist.emitted

\* the deposits, withdrawals and claims of user u at time ts
OwnCalls(u, ts) ==
  {deposit(Cur, u, Wallet[u], "custody", amount, ts) : amount \in 0..(InitWallet + 1)}
  \cup {withdraw(Cur, u, Wallet[u], "custody", shares, ts) : shares \in 0..MaxShares}
  \cup {claim_rewards(Cur, u, RewardWallet[u], "rvault", ts)}

ReserveA(tok) == tok[Pool.vault_a]
ReserveB(tok) == tok[Pool.vault_b]
Product(tok) == ReserveA(tok) * ReserveB(tok)

\* C39: every successful swap pays floor(amount_in * reserve_out / (reserve_in
\* + amount_in)), which is positive, at least min_amount_out and less than
\* reserve_out, and takes amount_in; it does not lower the product of the two
\* reserves and leaves both positive; a swap whose output is below
\* min_amount_out fails with SlippageExceeded and moves nothing (the output
\* exists when amount_in is positive and reserve_in + amount_in fits a u64).
C39_ConstantProduct ==
  /\ ReserveA(token) > 0
  /\ ReserveB(token) > 0
  /\ \A c \in SwapCalls :
       LET r == SwapResult(c)
           a_in == Mint[c.token_in] = Pool.mint_a
           reserve_in == IF a_in THEN ReserveA(token) ELSE ReserveB(token)
           reserve_out == IF a_in THEN ReserveB(token) ELSE ReserveA(token)
           quote == (c.amount_in * reserve_out) \div (reserve_in + c.amount_in)
       IN /\ r.err = "Ok" =>
               /\ r.out = quote
               /\ r.out > 0
               /\ r.out >= c.min_amount_out
               /\ r.out < reserve_out
               /\ r.tok[c.token_out] = token[c.token_out] + r.out
               /\ r.tok[c.token_in] = token[c.token_in] - c.amount_in
               /\ (IF a_in THEN ReserveA(r.tok) ELSE ReserveB(r.tok))
                     = reserve_in + c.amount_in
               /\ (IF a_in THEN ReserveB(r.tok) ELSE ReserveA(r.tok))
                     = reserve_out - r.out
               /\ Product(r.tok) >= Product(token)
               /\ ReserveA(r.tok) > 0
               /\ ReserveB(r.tok) > 0
          /\ (/\ c.amount_in > 0
              /\ reserve_in + c.amount_in < U64_RANGE
              /\ quote < c.min_amount_out) =>
               (r.err = "SlippageExceeded" /\ r.tok = token)

\* a swap has paid out at least the minimum it asked for, and a swap asking
\* for more than the pool quotes would be refused
C39_Witness ==
  /\ last.op = "swap"
  /\ last.out > 0
  /\ last.aux > 0
  /\ last.out >= last.aux
  /\ \E c \in SwapCalls : SwapResult(c).err = "SlippageExceeded"

\* C40: a deposit_swap_stake whose swap program is not in the stored allow-list
\* fails before any cross-program call and changes nothing, with
\* SwapProgramNotAllowlisted when the router is configured and its three
\* amounts are positive; the deposit call is issued only as the second call,
\* after a swap call that succeeded; the allow-list never holds more than
\* MAX_SWAP_PROGRAMS entries, a longer list is refused; and once set by
\* initialize_router_config the list changes only in a successful
\* update_swap_programs signed by the authority of the configuration.
C40_RouterAllowList ==
  /\ [](\A c \in RouterCalls :
          LET r == RouterResult(c)
          IN /\ c.swap_program \notin {config.swap_programs[i] :
                                          i \in 1..Len(config.swap_programs)} =>
                  /\ r.err # "Ok"
                  /\ r.calls = <<>>
                  /\ r.st = Cur
                  /\ (/\ config.initialized
                      /\ c.swap_amount_in > 0
                      /\ c.min_amount_out > 0
                      /\ c.vault_deposit_amount > 0) =>
                       r.err = "SwapProgramNotAllowlisted"
             /\ \A i \in 1..Len(r.calls) :
                  r.calls[i].ix = "deposit" =>
                    (i = 2 /\ r.calls[1].ix = "swap" /\ r.calls[1].ok)
             /\ r.err = "Ok" =>
                  /\ Len(r.calls) = 2
                  /\ r.calls[2].ix = "deposit"
                  /\ r.calls[2].ok)
  /\ [](Len(config.swap_programs) <= MAX_SWAP_PROGRAMS)
  /\ [](\A signer \in RouterSigners, swap_programs \in SwapProgramLists :
          LET i == initialize_router_config(config, signer, swap_programs)
              u == update_swap_programs(config, signer, swap_programs)
          IN /\ Len(swap_programs) > MAX_SWAP_PROGRAMS => (i.err # "Ok" /\ u.err # "Ok")
             /\ (config.initialized /\ signer # config.authority) =>
                  (u.err = "Unauthorized" /\ u.cfg = config)
             /\ config.initialized => (i.err # "Ok" /\ i.cfg = config))
  /\ [][config'.swap_programs # config.swap_programs =>
          IF config.initialized
            THEN last'.op = "update_swap_programs" /\ last'.user = config.authority
            ELSE last'.op = "initialize_router_config"]_vars

\* a deposit_swap_stake through mock-amm has swapped and deposited, under an
\* allow-list that an update has brought to its capacity, and the same call
\* through a program that is not listed would be refused
C40_Witness ==
  /\ last.op = "deposit_swap_stake"
  /\ last.out > 0
  /\ last.aux > 0
  /\ positions[last.user].shares > 0
  /\ Len(config.swap_programs) = MAX_SWAP_PROGRAMS
  /\ \E c \in RouterCalls : RouterResult(c).err = "SwapProgramNotAllowlisted"

====
